---- MODULE Spec2Model ----
(***************************************************************************)
(* Verification model of pi-rlm.                                           *)
(*                                                                         *)
(*  Part I  - the repo-scale recursive runner (RepoRLMStore): run.json and *)
(*            the three append-only logs, and the operations executeStep,  *)
(*            runUntil, getStatus, cancelRun and resumeRun.                *)
(*  Part II - the interactive engine (RLMEngine): the shared sub-call      *)
(*            budget, the recursion depth and the live call tree.          *)
(*  Part III - decideNode applied to drawn inputs.                         *)
(*  Part IV - RLMEngine.run: the iteration loop, the interpreter, the      *)
(*            cancellation signal and the release of resources.            *)
(***************************************************************************)
EXTENDS Integers, Sequences, FiniteSets, Bags, TLC

VARIABLES
    run,          \* run.json
    nodesLog,     \* nodes.jsonl   (sequence of node snapshots)
    resultsLog,   \* results.jsonl (sequence of results)
    queueLog,     \* queue.jsonl   (sequence of queue events)
    clock,        \* the wall clock (Date.now(), nowIso()), in ms since startRun
    faulty,       \* scope paths whose node execution throws
    lastError,    \* the operation whose last call threw, "none" when the last call returned
    cancels,      \* number of cancelRun calls that went through
    resumes,      \* number of resumeRun calls that re-opened the run
    artifactFiles, \* what the files written by synthesizeRun hold
    synths,       \* number of synthesizeRun calls
    sharedState,  \* SharedRLMState {llmCalls, rlmCalls}
    engines,      \* RLMEngine instances, by engine id
    calls,        \* sub-call records served by the loopback HTTP handlers
    activeCalls,  \* callTree.activeCalls
    completedCalls, \* callTree.completedCalls
    config,       \* RLMConfig of the interactive run tree
    decided,      \* one application of decideNode: its arguments and its outcome
    applied,      \* one application of another function to drawn arguments
    loops,        \* per engine: where its run() stands, its counters and resources
    signal        \* the AbortSignal handed to run(): TRUE once aborted

storeVars == <<run, nodesLog, resultsLog, queueLog, clock, faulty,
               lastError, cancels, resumes, artifactFiles, synths>>
engineVars == <<sharedState, engines, calls, activeCalls, completedCalls, config>>
decideVars == <<decided, applied>>
loopVars == <<loops, signal>>
vars == <<storeVars, engineVars, decideVars, loopVars>>

(***************************************************************************)
(* Bounds of the model.                                                    *)
(***************************************************************************)
MaxLifecycleCalls == 2   \* cancelRun and resumeRun calls that change the run
MaxStepNodes == 2        \* largest maxNodes passed to executeStep
MaxFaulty == 2           \* number of scope paths whose execution throws
MaxSynthCalls == 1       \* synthesizeRun calls

(***************************************************************************)
(* Generic helpers.                                                        *)
(***************************************************************************)
Min(a, b) == IF a < b THEN a ELSE b
Max(a, b) == IF a > b THEN a ELSE b
Range(s) == {s[i] : i \in 1..Len(s)}
\* f applied to the value of x, computed once.
With(x, f(_)) == CHOOSE out \in {f(v) : v \in {x}} : TRUE

InSeq(s, x) == \E i \in 1..Len(s) : s[i] = x

RECURSIVE Flatten(_)
Flatten(ss) == IF ss = <<>> THEN <<>> ELSE Head(ss) \o Flatten(Tail(ss))

(***************************************************************************)
(* The source tree the run analyses.  A path is <<"d", n>> (a directory)   *)
(* or <<"f", n>> (a file).  readdir(p) is the directory listing:           *)
(*                                                                         *)
(*   d0 (cwd)  f1, a/, b/                                                  *)
(*   d1 = a    a1/, a2/                                                    *)
(*   d3 = a1   f2 .. f8                                                    *)
(*   d4 = a2   f9 .. f15                                                   *)
(*   d2 = b    f16 .. f28                                                  *)
(*                                                                         *)
(* Outside cwd there are three more files, f29 .. f31, of sizes that add   *)
(* up to the byte thresholds of decideNode.                                *)
(***************************************************************************)
D(n) == <<"d", n>>
F(n) == <<"f", n>>
isDirectory(p) == p[1] = "d"
isFile(p) == p[1] = "f"
FileRange(a, b) == [i \in 1..(b - a + 1) |-> F(a + i - 1)]

readdir(p) ==
    CASE p = D(0) -> <<F(1), D(1), D(2)>>
      [] p = D(1) -> <<D(3), D(4)>>
      [] p = D(2) -> FileRange(16, 28)
      [] p = D(3) -> FileRange(2, 8)
      [] p = D(4) -> FileRange(9, 15)
      [] OTHER -> <<>>

basename(p) ==
    CASE p = D(0) -> "cwd"
      [] p = D(1) -> "a"
      [] p = D(2) -> "b"
      [] p = D(3) -> "a1"
      [] p = D(4) -> "a2"
      [] OTHER -> "file"

FileSize == 1000
BigFile == F(29)
MidFile == F(31)
TinyFile == F(30)

AllPaths == {D(n) : n \in 0..4} \cup {F(n) : n \in 1..28}

(***************************************************************************)
(* Constants of the program.                                               *)
(***************************************************************************)
DecideMaxFiles == 400
LeafMaxFiles == 200
ReviewThresholdFiles == 12
DefaultThresholdFiles == 16
ReviewThresholdBytes == 2000000
DefaultThresholdBytes == 3000000
ChunkSize == 8
SplitCostTokens == 4000
DefaultMaxLlmCalls == 300
DefaultMaxTokens == 500000

\* statSync(p).size
statSize(p) ==
    CASE p = BigFile -> ReviewThresholdBytes
      [] p = MidFile -> DefaultThresholdBytes - ReviewThresholdBytes
      [] p = TinyFile -> 1
      [] OTHER -> FileSize

TerminalStatuses == {"completed", "failed", "cancelled"}
isTerminalNodeStatus(status) == status \in TerminalStatuses

RootNodeId == << <<0, "root">> >>

(***************************************************************************)
(* Reading the logs: latest entry wins per node_id; a Map keeps its keys   *)
(* in the order of first insertion.                                        *)
(***************************************************************************)
\* The indices at which a node_id occurs for the first time, in log order.
KeyOrder(log) ==
    SelectSeq([i \in 1..Len(log) |-> i],
              LAMBDA i : \A j \in 1..(i - 1) : log[j].node_id # log[i].node_id)

lastIndexOf(log, id) ==
    CHOOSE i \in 1..Len(log) :
        /\ log[i].node_id = id
        /\ \A j \in (i + 1)..Len(log) : log[j].node_id # id

LatestEntry(log, id) == log[lastIndexOf(log, id)]

HasEntry(log, id) == \E i \in 1..Len(log) : log[i].node_id = id

getLatestNodes(nlog) ==
    With(KeyOrder(nlog), LAMBDA keys :
       [k \in 1..Len(keys) |-> LatestEntry(nlog, nlog[keys[k]].node_id)])

getLatestResults(rlog) ==
    With(KeyOrder(rlog), LAMBDA keys :
       [k \in 1..Len(keys) |-> LatestEntry(rlog, rlog[keys[k]].node_id)])

FindNode(nodes, id) == nodes[CHOOSE i \in 1..Len(nodes) : nodes[i].node_id = id]
HasNode(nodes, id) == \E i \in 1..Len(nodes) : nodes[i].node_id = id

(***************************************************************************)
(* selectNextQueuedNode: Array.prototype.sort is stable, so among nodes    *)
(* that compare equal the one first in the Map's order is taken.           *)
(***************************************************************************)
\* A variant of the dfs order that prefers the shallowest node.
DfsBeforeShallow(a, b) == a.depth < b.depth \/ (a.depth = b.depth /\ a.created_at < b.created_at)

DfsBefore(a, b) == a.depth > b.depth \/ (a.depth = b.depth /\ a.created_at < b.created_at)
BfsBefore(a, b) == a.depth < b.depth \/ (a.depth = b.depth /\ a.created_at < b.created_at)
\* A variant in which hybrid takes the dfs order.
SortsBeforeHybridDfs(scheduler, a, b) ==
    IF scheduler # "bfs" THEN DfsBefore(a, b) ELSE BfsBefore(a, b)

SortsBefore(scheduler, a, b) ==
    IF scheduler = "dfs" THEN DfsBefore(a, b) ELSE BfsBefore(a, b)

queuedNodes(nodes) == SelectSeq(nodes, LAMBDA n : n.status = "queued")

selectNextQueuedNode(nodes, scheduler) ==
    With(queuedNodes(nodes), LAMBDA queued :
       queued[CHOOSE i \in 1..Len(queued) :
                 /\ \A j \in 1..Len(queued) : ~SortsBefore(scheduler, queued[j], queued[i])
                 /\ \A j \in 1..(i - 1) : SortsBefore(scheduler, queued[i], queued[j])])

(***************************************************************************)
(* updateNode: append the updated snapshot of the node's latest entry.     *)
(***************************************************************************)
updateNode(nlog, nodeId, fields) ==
    With(LatestEntry(nlog, nodeId), LAMBDA current :
       Append(nlog, [f \in DOMAIN current |->
                        IF f \in DOMAIN fields THEN fields[f] ELSE current[f]]))

QueueEvent(event, nodeId) == [event |-> event, node_id |-> nodeId]

(***************************************************************************)
(* collectScopeFiles: depth-first walk with an explicit stack, a visited   *)
(* set and a cap on the number of sampled files.                           *)
(***************************************************************************)
\* The files on top of the stack, in the order the loop pops them.
poppedFiles(stack) ==
    LET dirs == {j \in 1..Len(stack) : ~isFile(stack[j])}
        below == IF dirs = {} THEN 0 ELSE CHOOSE j \in dirs : \A k \in dirs : k <= j
    IN [i \in 1..(Len(stack) - below) |-> stack[Len(stack) - i + 1]]

\* Those of them the loop samples: not visited before, up to the cap.
sampledOf(popped, visited, room) ==
    With(SelectSeq([i \in 1..Len(popped) |-> i],
                   LAMBDA i : /\ popped[i] \notin visited
                              /\ \A j \in 1..(i - 1) : popped[j] # popped[i]),
         LAMBDA fresh : [i \in 1..Min(room, Len(fresh)) |-> popped[fresh[i]]])

\* One level pops a directory, or all the files above the topmost directory:
\* the iterations that pop these files only move them to sampledFiles.
RECURSIVE collectLoop(_, _, _, _)
\* The next iteration, its arguments bound through singleton sets so that each
\* is computed once.
collectNext(stack, visited, sampledFiles, maxFiles) ==
    CHOOSE out \in {collectLoop(st, vis, sam, maxFiles) :
                       st \in {stack}, vis \in {visited}, sam \in {sampledFiles}} : TRUE

collectLoop(stack, visited, sampledFiles, maxFiles) ==
    IF stack = <<>> \/ Len(sampledFiles) >= maxFiles THEN sampledFiles
    ELSE LET p == stack[Len(stack)]
             rest == SubSeq(stack, 1, Len(stack) - 1)
         IN IF isFile(p)
            THEN With(poppedFiles(stack), LAMBDA popped :
                    collectNext(SubSeq(stack, 1, Len(stack) - Len(popped)),
                                visited \cup Range(popped),
                                sampledFiles \o sampledOf(popped, visited,
                                                          maxFiles - Len(sampledFiles)),
                                maxFiles))
            ELSE IF p \in visited THEN collectNext(rest, visited, sampledFiles, maxFiles)
            ELSE collectNext(rest \o readdir(p), visited \cup {p}, sampledFiles, maxFiles)

\* totalBytes is the sum of the sizes: the cardinality of the bag that holds
\* each sampled file size(file) times.
collectScopeFiles(paths, maxFiles) ==
    With(collectLoop(paths, {}, <<>>, maxFiles), LAMBDA sampled :
       [fileCount |-> Len(sampled),
        totalBytes |-> BagCardinality([i \in 1..Len(sampled) |-> statSize(sampled[i])]),
        sampledFiles |-> sampled])

(***************************************************************************)
(* decideNode: the ordered leaf/split policy.                              *)
(***************************************************************************)
splitThresholdFiles(mode) == IF mode = "review" THEN ReviewThresholdFiles ELSE DefaultThresholdFiles
splitThresholdBytes(mode) == IF mode = "review" THEN ReviewThresholdBytes ELSE DefaultThresholdBytes

\* A variant that looks at the LLM budget before the depth.
decideNodeBudgetFirst(r, node, now) ==
    LET metrics == collectScopeFiles(node.paths, DecideMaxFiles)
    IN IF now > node.budgets.deadline_epoch_ms
         THEN [decision |-> "leaf", reason |-> "deadline_exceeded", metrics |-> metrics]
       ELSE IF node.budgets.remaining_llm_calls <= 0
         THEN [decision |-> "leaf", reason |-> "llm_budget_exhausted", metrics |-> metrics]
       ELSE IF node.depth >= r.config.max_depth
         THEN [decision |-> "leaf", reason |-> "max_depth_reached", metrics |-> metrics]
       ELSE IF node.budgets.remaining_tokens <= 0
         THEN [decision |-> "leaf", reason |-> "token_budget_exhausted", metrics |-> metrics]
       ELSE IF \/ metrics.fileCount > splitThresholdFiles(r.mode)
               \/ metrics.totalBytes > splitThresholdBytes(r.mode)
         THEN [decision |-> "split", reason |-> "scope_too_large", metrics |-> metrics]
       ELSE [decision |-> "leaf", reason |-> "scope_small_enough", metrics |-> metrics]

\* A variant that lets a node at max_depth split once more.
decideNodeDeeper(r, node, now) ==
    With(collectScopeFiles(node.paths, DecideMaxFiles), LAMBDA metrics :
       IF now > node.budgets.deadline_epoch_ms
         THEN [decision |-> "leaf", reason |-> "deadline_exceeded", metrics |-> metrics]
       ELSE IF node.depth > r.config.max_depth
         THEN [decision |-> "leaf", reason |-> "max_depth_reached", metrics |-> metrics]
       ELSE IF \/ metrics.fileCount > splitThresholdFiles(r.mode)
               \/ metrics.totalBytes > splitThresholdBytes(r.mode)
         THEN [decision |-> "split", reason |-> "scope_too_large", metrics |-> metrics]
       ELSE [decision |-> "leaf", reason |-> "scope_small_enough", metrics |-> metrics])

decideNode(r, node, now) ==
    With(collectScopeFiles(node.paths, DecideMaxFiles), LAMBDA metrics :
       IF now > node.budgets.deadline_epoch_ms
         THEN [decision |-> "leaf", reason |-> "deadline_exceeded", metrics |-> metrics]
       ELSE IF node.depth >= r.config.max_depth
         THEN [decision |-> "leaf", reason |-> "max_depth_reached", metrics |-> metrics]
       ELSE IF node.budgets.remaining_llm_calls <= 0
         THEN [decision |-> "leaf", reason |-> "llm_budget_exhausted", metrics |-> metrics]
       ELSE IF node.budgets.remaining_tokens <= 0
         THEN [decision |-> "leaf", reason |-> "token_budget_exhausted", metrics |-> metrics]
       ELSE IF \/ metrics.fileCount > splitThresholdFiles(r.mode)
               \/ metrics.totalBytes > splitThresholdBytes(r.mode)
         THEN [decision |-> "split", reason |-> "scope_too_large", metrics |-> metrics]
       ELSE [decision |-> "leaf", reason |-> "scope_small_enough", metrics |-> metrics])

(***************************************************************************)
(* splitNode: one child per immediate subdirectory, else file groups of    *)
(* up to 8; the parent's budgets, less the cost of the split, are divided  *)
(* equally.                                                                *)
(***************************************************************************)
\* A variant whose groups share their boundary file.
RECURSIVE chunkOverlapping(_, _)
chunkOverlapping(items, size) ==
    IF Len(items) <= 1 THEN <<>>
    ELSE <<SubSeq(items, 1, Min(size, Len(items)))>>
         \o chunkOverlapping(SubSeq(items, Min(size, Len(items)), Len(items)), size)

RECURSIVE chunk(_, _)
chunk(items, size) ==
    IF Len(items) = 0 THEN <<>>
    ELSE <<SubSeq(items, 1, Min(size, Len(items)))>>
         \o chunk(SubSeq(items, Min(size, Len(items)) + 1, Len(items)), size)

splitEntries(paths) ==
    Flatten([i \in 1..Len(paths) |->
                IF isFile(paths[i]) THEN <<paths[i]>> ELSE readdir(paths[i])])

childScopes(paths) ==
    LET entries == splitEntries(paths)
        dirs == SelectSeq(entries, isDirectory)
        files == SelectSeq(entries, isFile)
        grouped == chunk(files, ChunkSize)
    IN IF Len(dirs) > 0
       THEN [i \in 1..Len(dirs) |->
                [scope_type |-> "dir", paths |-> <<dirs[i]>>, label |-> basename(dirs[i])]]
       ELSE [i \in 1..Len(grouped) |->
                [scope_type |-> "file_group", paths |-> grouped[i], label |-> "group"]]

\* A variant that hands every child the whole budget left after the split.
splitNodeUndivided(r, node, now) ==
    LET scopes == childScopes(node.paths)
        llmBudgetAfterSplit == Max(0, node.budgets.remaining_llm_calls - 1)
        tokenBudgetAfterSplit == Max(0, node.budgets.remaining_tokens - SplitCostTokens)
        perChildCalls == IF Len(scopes) > 0 THEN llmBudgetAfterSplit ELSE 0
        perChildTokens == IF Len(scopes) > 0 THEN tokenBudgetAfterSplit ELSE 0
    IN [i \in 1..Len(scopes) |->
          [node_id |-> Append(node.node_id, <<i, scopes[i].label>>),
           parent_id |-> node.node_id,
           depth |-> node.depth + 1,
           scope_type |-> scopes[i].scope_type,
           paths |-> scopes[i].paths,
           status |-> "queued",
           decision |-> "undecided",
           decision_reason |-> "none",
           child_ids |-> <<>>,
           confidence |-> 0,
           budgets |-> [max_depth |-> node.budgets.max_depth,
                        remaining_llm_calls |-> Max(0, perChildCalls),
                        remaining_tokens |-> Max(0, perChildTokens),
                        deadline_epoch_ms |-> node.budgets.deadline_epoch_ms],
           errors |-> <<>>,
           created_at |-> now]]

splitNode(r, node, now) ==
    LET scopes == childScopes(node.paths)
        llmBudgetAfterSplit == Max(0, node.budgets.remaining_llm_calls - 1)
        tokenBudgetAfterSplit == Max(0, node.budgets.remaining_tokens - SplitCostTokens)
        perChildCalls == IF Len(scopes) > 0 THEN llmBudgetAfterSplit \div Len(scopes) ELSE 0
        perChildTokens == IF Len(scopes) > 0 THEN tokenBudgetAfterSplit \div Len(scopes) ELSE 0
    IN [i \in 1..Len(scopes) |->
          [node_id |-> Append(node.node_id, <<i, scopes[i].label>>),
           parent_id |-> node.node_id,
           depth |-> node.depth + 1,
           scope_type |-> scopes[i].scope_type,
           paths |-> scopes[i].paths,
           status |-> "queued",
           decision |-> "undecided",
           decision_reason |-> "none",
           child_ids |-> <<>>,
           confidence |-> 0,
           budgets |-> [max_depth |-> node.budgets.max_depth,
                        remaining_llm_calls |-> Max(0, perChildCalls),
                        remaining_tokens |-> Max(0, perChildTokens),
                        deadline_epoch_ms |-> node.budgets.deadline_epoch_ms],
           errors |-> <<>>,
           created_at |-> now]]

(***************************************************************************)
(* scanReviewFindings and executeLeafNode.  The file contents are a        *)
(* fixture: patternLine(p, pattern) is the line of the first match of the  *)
(* pattern in file p, 0 when content.indexOf(pattern) = -1.                *)
(***************************************************************************)
MaxFilesToInspect == 40
MaxFindings == 25
MaxInspectBytes == 256000

\* Files outside cwd for the scan: f100.. hold a TODO, f200.. hold all three
\* patterns, f300.. hold none.  BigFile holds a TODO and is over the size cap.
TodoFiles == 100..199
TripleFiles == 200..299
PlainFiles == 300..399

patternLine(p, pattern) ==
    CASE p = F(2) /\ pattern = "eval(" -> 7
      [] p = F(2) /\ pattern = "TODO" -> 12
      [] p = F(16) /\ pattern = "any" -> 3
      [] p = F(25) /\ pattern = "TODO" -> 1
      [] p = BigFile /\ pattern = "TODO" -> 1
      [] p[2] \in TodoFiles /\ pattern = "TODO" -> 1
      [] p[2] \in TripleFiles -> 1
      [] OTHER -> 0

checks ==
    << [pattern |-> "eval(", severity |-> "high", title |-> "Potential dynamic code execution",
        domain |-> "security"],
       [pattern |-> "TODO", severity |-> "low", title |-> "Unresolved TODO found",
        domain |-> "quality"],
       [pattern |-> "any", severity |-> "medium", title |-> "Type safety risk (any)",
        domain |-> "quality"] >>

\* The (file, check) pairs in the order of the two nested loops.
scanPairs(files) ==
    [k \in 1..(Min(MaxFilesToInspect, Len(files)) * Len(checks)) |->
        [file |-> ((k - 1) \div Len(checks)) + 1, check |-> ((k - 1) % Len(checks)) + 1]]

\* Those of them that push a finding, were the outer loop never left.
scanHits(files) ==
    SelectSeq(scanPairs(files),
              LAMBDA h : /\ statSize(files[h.file]) <= MaxInspectBytes
                         /\ patternLine(files[h.file], checks[h.check].pattern) # 0)

\* The last file the outer loop handles: the first after which MaxFindings
\* findings are held, or the last inspected file.
scanLastFile(files, hits) ==
    LET full == {i \in 1..Min(MaxFilesToInspect, Len(files)) :
                    Len(SelectSeq(hits, LAMBDA h : h.file <= i)) >= MaxFindings}
    IN IF full = {} THEN Min(MaxFilesToInspect, Len(files))
       ELSE CHOOSE i \in full : \A j \in full : i <= j

scanKept(files) ==
    With(scanHits(files), LAMBDA hits :
       With(scanLastFile(files, hits), LAMBDA last :
          SelectSeq(hits, LAMBDA h : h.file <= last)))

scanFiles(node, files) ==
    With(scanKept(files), LAMBDA kept :
       [k \in 1..Len(kept) |->
          [id |-> <<node.node_id, k>>,
           domain |-> checks[kept[k].check].domain,
           severity |-> checks[kept[k].check].severity,
           confidence |-> IF checks[kept[k].check].severity = "high" THEN 80 ELSE 60,
           title |-> checks[kept[k].check].title,
           evidence |-> << [path |-> files[kept[k].file],
                            line_start |-> patternLine(files[kept[k].file],
                                                       checks[kept[k].check].pattern),
                            line_end |-> patternLine(files[kept[k].file],
                                                     checks[kept[k].check].pattern),
                            quote |-> checks[kept[k].check].pattern] >>]])

scanReviewFindings(r, node, files) ==
    IF r.mode # "review" THEN <<>> ELSE scanFiles(node, files)

executeLeafNode(r, node) ==
    With(collectScopeFiles(node.paths, LeafMaxFiles), LAMBDA metrics :
       [node_id |-> node.node_id,
        status |-> "completed",
        findings |-> scanReviewFindings(r, node, metrics.sampledFiles),
        artifacts |-> IF r.mode = "wiki"
                      THEN << [kind |-> "wiki_node", path |-> node.node_id] >>
                      ELSE <<>>])

(***************************************************************************)
(* The store as one value: run.json, the three logs and the clock.         *)
(***************************************************************************)
Store == [run |-> run, nodes |-> nodesLog, results |-> resultsLog,
          queue |-> queueLog, clock |-> clock]

(***************************************************************************)
(* aggregateReadySplitParents.  nodes and resultMap are read once, before  *)
(* the loop; each ready parent gets a Result, a terminal snapshot and a    *)
(* node_aggregated event.                                                  *)
(***************************************************************************)
childNodesOf(parent, nodes) ==
    With(SelectSeq(parent.child_ids, LAMBDA id : HasNode(nodes, id)), LAMBDA found :
       [i \in 1..Len(found) |-> FindNode(nodes, found[i])])

isFailedChild(n) == n.status = "failed" \/ n.status = "cancelled"

\* A variant that waits for the parent to have a Result.
readyForAggregationWithResult(parent, nodes, rlog) ==
    /\ parent.decision = "split"
    /\ parent.status = "running"
    /\ HasEntry(rlog, parent.node_id)
    /\ Len(parent.child_ids) > 0

readyForAggregation(parent, nodes, rlog) ==
    /\ parent.decision = "split"
    /\ parent.status = "running"
    /\ ~HasEntry(rlog, parent.node_id)
    /\ Len(parent.child_ids) > 0
    /\ With(childNodesOf(parent, nodes), LAMBDA childNodes :
          /\ Len(childNodes) = Len(parent.child_ids)
          /\ \A i \in 1..Len(parent.child_ids) : isTerminalNodeStatus(childNodes[i].status))

\* A variant that reports partial only for a mixed outcome.
aggregatedResultStatusMixedOnly(failedChildren, childCount) ==
    IF failedChildren > 0 /\ failedChildren < childCount THEN "partial"
    ELSE IF failedChildren = 0 THEN "completed" ELSE "failed"

aggregatedResultStatus(failedChildren, childCount) ==
    IF failedChildren > 0 THEN "partial" ELSE "completed"

aggregatedNodeStatus(failedChildren, childCount) ==
    IF failedChildren = childCount THEN "failed" ELSE "completed"

childResultsOf(childNodes, rlog) ==
    With(SelectSeq(childNodes, LAMBDA n : HasEntry(rlog, n.node_id)), LAMBDA withResult :
       [i \in 1..Len(withResult) |-> LatestEntry(rlog, withResult[i].node_id)])

aggregateParent(s, parent, nodes, rlog) ==
  With(childNodesOf(parent, nodes), LAMBDA childNodes :
    With(childResultsOf(childNodes, rlog), LAMBDA childResults :
    LET failedChildren == Len(SelectSeq(childNodes, isFailedChild))
        result == [node_id |-> parent.node_id,
                   status |-> aggregatedResultStatus(failedChildren, Len(childNodes)),
                   findings |-> Flatten([i \in 1..Len(childResults) |-> childResults[i].findings]),
                   artifacts |-> Flatten([i \in 1..Len(childResults) |-> childResults[i].artifacts])]
    IN [s EXCEPT
          !.results = Append(@, result),
          !.nodes = updateNode(@, parent.node_id,
                      [status |-> aggregatedNodeStatus(failedChildren, Len(childNodes)),
                       confidence |-> IF failedChildren > 0 THEN 60 ELSE 80]),
          !.queue = Append(@, QueueEvent("node_aggregated", parent.node_id))]))

RECURSIVE aggregateLoop(_, _, _, _, _)
aggregateLoop(s, nodes, rlog, k, aggregated) ==
    IF k > Len(nodes) THEN [store |-> s, aggregated |-> aggregated]
    ELSE IF readyForAggregation(nodes[k], nodes, rlog)
         THEN aggregateLoop(aggregateParent(s, nodes[k], nodes, rlog), nodes, rlog, k + 1,
                            aggregated + 1)
         ELSE aggregateLoop(s, nodes, rlog, k + 1, aggregated)

aggregateReadySplitParents(s) ==
    With(getLatestNodes(s.nodes), LAMBDA nodes : aggregateLoop(s, nodes, s.results, 1, 0))

(***************************************************************************)
(* refreshRunProgress, refreshRunTerminalState and the output index.       *)
(***************************************************************************)
countStatus(nodes, status) == Len(SelectSeq(nodes, LAMBDA n : n.status = status))

RECURSIVE maxDepthOf(_, _)
maxDepthOf(nodes, m) ==
    IF nodes = <<>> THEN m ELSE maxDepthOf(Tail(nodes), Max(m, Head(nodes).depth))

\* A variant that leaves queued nodes out of nodes_total.
progressOfStarted(nodes) ==
    [nodes_total |-> Len(nodes) - countStatus(nodes, "queued"),
     nodes_completed |-> countStatus(nodes, "completed"),
     nodes_failed |-> countStatus(nodes, "failed"),
     active_nodes |-> countStatus(nodes, "running"),
     max_depth_seen |-> maxDepthOf(nodes, 0)]

progressOf(nodes) ==
    [nodes_total |-> Len(nodes),
     nodes_completed |-> countStatus(nodes, "completed"),
     nodes_failed |-> countStatus(nodes, "failed"),
     active_nodes |-> countStatus(nodes, "running"),
     max_depth_seen |-> maxDepthOf(nodes, 0)]

refreshRunProgress(r, s) ==
    [r EXCEPT !.progress = progressOf(getLatestNodes(s.nodes)),
              !.checkpoint.last_event_offset = Len(s.queue)]

refreshRunTerminalState(r, s) ==
    With(getLatestNodes(s.nodes), LAMBDA nodes :
       IF ~HasNode(nodes, r.root_node_id)
         THEN [r EXCEPT !.status = "failed", !.completed_at = TRUE]
       ELSE IF FindNode(nodes, r.root_node_id).status \in TerminalStatuses
         THEN [r EXCEPT !.status = FindNode(nodes, r.root_node_id).status, !.completed_at = TRUE]
       ELSE IF countStatus(nodes, "queued") + countStatus(nodes, "running") = 0
         THEN [r EXCEPT !.status = "failed", !.completed_at = TRUE]
       ELSE r)

artifactIndex(rlog) ==
    With(getLatestResults(rlog), LAMBDA results :
       Flatten([i \in 1..Len(results) |-> results[i].artifacts]))

(***************************************************************************)
(* executeStep: one iteration of the loop (processNode) and the whole      *)
(* step.  A node whose scope holds a faulty path throws inside the try     *)
(* block.                                                                  *)
(***************************************************************************)
nodeExecutionThrows(node) == \E i \in 1..Len(node.paths) : node.paths[i] \in faulty

\* A variant that marks the error retryable and appends no event.
failNodeSilently(s, node) ==
    [s EXCEPT
       !.nodes = updateNode(@, node.node_id,
                   [status |-> "failed",
                    errors |-> << [code |-> "node_execution_error", retryable |-> TRUE] >>])]

failNode(s, node) ==
    [s EXCEPT
       !.nodes = updateNode(@, node.node_id,
                   [status |-> "failed",
                    errors |-> << [code |-> "node_execution_error", retryable |-> FALSE] >>]),
       !.queue = Append(@, QueueEvent("node_failed", node.node_id))]

\* A variant that writes the completed snapshot and no Result.
completeLeafWithoutResult(s, node, reason, confidence) ==
    [s EXCEPT
       !.nodes = updateNode(@, node.node_id,
                   [decision |-> "leaf", decision_reason |-> reason,
                    status |-> "completed", confidence |-> confidence]),
       !.queue = Append(@, QueueEvent("node_completed", node.node_id))]

completeLeaf(s, node, reason, confidence) ==
    [s EXCEPT
       !.results = Append(@, executeLeafNode(s.run, node)),
       !.nodes = updateNode(@, node.node_id,
                   [decision |-> "leaf", decision_reason |-> reason,
                    status |-> "completed", confidence |-> confidence]),
       !.queue = Append(@, QueueEvent("node_completed", node.node_id))]

\* A variant that logs the children's node_enqueued before the node_split.
enqueueChildrenFirst(s, node, reason, children) ==
    [s EXCEPT
       !.nodes = updateNode(@, node.node_id,
                   [decision |-> "split", decision_reason |-> reason,
                    child_ids |-> [i \in 1..Len(children) |-> children[i].node_id]])
                 \o children,
       !.queue = @ \o [i \in 1..Len(children) |-> QueueEvent("node_enqueued", children[i].node_id)]
                 \o << QueueEvent("node_split", node.node_id) >>]

enqueueChildren(s, node, reason, children) ==
    [s EXCEPT
       !.nodes = updateNode(@, node.node_id,
                   [decision |-> "split", decision_reason |-> reason,
                    child_ids |-> [i \in 1..Len(children) |-> children[i].node_id]])
                 \o children,
       !.queue = Append(@, QueueEvent("node_split", node.node_id))
                 \o [i \in 1..Len(children) |-> QueueEvent("node_enqueued", children[i].node_id)]]

startNode(s, next) ==
    [s EXCEPT
       !.queue = @ \o << QueueEvent("node_dequeued", next.node_id),
                         QueueEvent("node_started", next.node_id) >>,
       !.nodes = updateNode(@, next.node_id, [status |-> "running"]),
       !.clock = @ + 1]

processStarted(s, started, runningNode) ==
    IF nodeExecutionThrows(runningNode) THEN failNode(started, runningNode)
    ELSE With(decideNode(s.run, runningNode, started.clock), LAMBDA decision :
            IF decision.decision = "split"
            THEN With(splitNode(s.run, runningNode, started.clock), LAMBDA children :
                    IF Len(children) = 0
                    THEN completeLeaf(started, runningNode, "split_no_children_fallback_leaf", 75)
                    ELSE enqueueChildren(started, runningNode, decision.reason, children))
            ELSE completeLeaf(started, runningNode, decision.reason, 80))

processNode(s, next) ==
    With(startNode(s, next), LAMBDA started :
       With(LatestEntry(started.nodes, next.node_id), LAMBDA runningNode :
          processStarted(s, started, runningNode)))

RECURSIVE stepLoop(_, _, _, _, _)
stepNext(agg, scheduler, i, maxNodes, processed, aggregated) ==
    With(getLatestNodes(agg.store.nodes), LAMBDA allNodes :
       IF Len(queuedNodes(allNodes)) = 0
       THEN [store |-> agg.store, processed |-> processed,
             aggregated |-> aggregated + agg.aggregated]
       ELSE CHOOSE out \in
              {stepLoop(s, i + 1, maxNodes, processed + 1, aggregated + agg.aggregated) :
                 s \in {processNode(agg.store, selectNextQueuedNode(allNodes, scheduler))}} : TRUE)

\* Each intermediate store is bound through a singleton set, so that it is
\* computed once.
stepLoop(s, i, maxNodes, processed, aggregated) ==
    IF i >= Max(1, maxNodes)
    THEN [store |-> s, processed |-> processed, aggregated |-> aggregated]
    ELSE CHOOSE out \in
           {stepNext(agg, s.run.config.scheduler, i, maxNodes, processed, aggregated) :
              agg \in {aggregateReadySplitParents(s)}} : TRUE

stepEnd(looped, trailing) ==
    LET st == trailing.store
        refreshed == refreshRunTerminalState(refreshRunProgress(st.run, st), st)
    IN [store |-> [st EXCEPT !.run = [refreshed EXCEPT
                                        !.output_index = artifactIndex(st.results)]],
        processed_nodes |-> looped.processed,
        aggregated_nodes |-> looped.aggregated + trailing.aggregated]

stepTrailing(looped) ==
    CHOOSE out \in {stepEnd(looped, trailing) :
                      trailing \in {aggregateReadySplitParents(looped.store)}} : TRUE

executeStep(s, maxNodes) ==
    CHOOSE out \in {stepTrailing(looped) : looped \in {stepLoop(s, 0, maxNodes, 0, 0)}} : TRUE

(***************************************************************************)
(* runUntil: executeStep(runId, 1) until the run is terminal, a step is    *)
(* idle, or maxNodes steps were made.                                      *)
(***************************************************************************)
RECURSIVE runLoop(_, _, _)
runNext(step, i, maxNodes) ==
    IF step.store.run.status # "running" THEN step.store
    ELSE IF step.processed_nodes = 0 /\ step.aggregated_nodes = 0 THEN step.store
    ELSE runLoop(step.store, i + 1, maxNodes)

\* The step is bound through a singleton set, so that it is computed once.
runLoop(s, i, maxNodes) ==
    IF i >= Max(1, maxNodes) THEN s
    ELSE CHOOSE out \in {runNext(step, i, maxNodes) : step \in {executeStep(s, 1)}} : TRUE

runUntil(s, maxNodes) == runLoop(s, 0, maxNodes)

(***************************************************************************)
(* getStatus, cancelRun, resumeRun.                                        *)
(***************************************************************************)
getStatus(s) ==
    [s EXCEPT !.run.progress = progressOf(getLatestNodes(s.nodes)),
              !.run.checkpoint.last_event_offset = Len(s.queue)]

cancelRejects(status) == status = "completed" \/ status = "failed"

RECURSIVE setStatusAll(_, _, _)
setStatusAll(nlog, ids, status) ==
    IF ids = <<>> THEN nlog
    ELSE setStatusAll(updateNode(nlog, Head(ids), [status |-> status]), Tail(ids), status)

nodeIds(nodes) == [i \in 1..Len(nodes) |-> nodes[i].node_id]

\* A variant that leaves running nodes alone.
cancelTargetsQueuedOnly(nodes) ==
    SelectSeq(nodes, LAMBDA n : n.status = "queued")

cancelTargets(nodes) ==
    SelectSeq(nodes, LAMBDA n : n.status = "queued" \/ n.status = "running")

cancelRun(s) ==
    [s EXCEPT
       !.run.status = "cancelled",
       !.run.completed_at = TRUE,
       !.nodes = setStatusAll(@, nodeIds(cancelTargets(getLatestNodes(s.nodes))), "cancelled"),
       !.queue = Append(@, QueueEvent("run_cancelled", s.run.root_node_id))]

\* A variant that also re-queues failed nodes.
resumeTargetsWithFailed(nodes, rlog) ==
    SelectSeq(nodes, LAMBDA n : (n.status = "cancelled" \/ n.status = "failed")
                                 /\ ~HasEntry(rlog, n.node_id))

resumeTargets(nodes, rlog) ==
    SelectSeq(nodes, LAMBDA n : n.status = "cancelled" /\ ~HasEntry(rlog, n.node_id))

resumeRun(s) ==
    With(nodeIds(resumeTargets(getLatestNodes(s.nodes), s.results)), LAMBDA requeued :
       [s EXCEPT
          !.run.status = "running",
          !.run.completed_at = FALSE,
          !.nodes = setStatusAll(@, requeued, "queued"),
          !.queue = @ \o [i \in 1..Len(requeued) |-> QueueEvent("node_requeued", requeued[i])]
                      \o << QueueEvent("run_resumed", s.run.root_node_id) >>])

(***************************************************************************)
(* Review synthesis: dedupeAndRankFindings and clusterFindings.  A Map is  *)
(* a sequence in insertion order; Array.prototype.sort is stable.          *)
(***************************************************************************)
stableSort(s, before(_, _)) ==
    LET pos(i) == Cardinality({j \in 1..Len(s) :
                      \/ before(s[j], s[i])
                      \/ ~before(s[i], s[j]) /\ j < i}) + 1
    IN [k \in 1..Len(s) |-> s[CHOOSE i \in 1..Len(s) : pos(i) = k]]

severityRank(severity) ==
    CASE severity = "critical" -> 5
      [] severity = "high" -> 4
      [] severity = "medium" -> 3
      [] severity = "low" -> 2
      [] severity = "info" -> 1
      [] OTHER -> 0

\* toLowerCase, punctuation to blanks, trim: on the titles of the model.
normalizeTitle(title) ==
    CASE title = "Leak" -> "leak"
      [] title = "leak!" -> "leak"
      [] title = "Potential dynamic code execution" -> "potential dynamic code execution"
      [] title = "Unresolved TODO found" -> "unresolved todo found"
      [] title = "Type safety risk (any)" -> "type safety risk any"
      [] OTHER -> title

\* The first segment of a relative path: on the paths of the model.
firstPathSegment(p) ==
    CASE p = F(1) -> "f1"
      [] p \in Range(FileRange(2, 15)) -> "a"
      [] p \in Range(FileRange(16, 28)) -> "b"
      [] OTHER -> "(root)"

dedupeKey(f) ==
    <<f.domain, f.title, f.evidence[1].path, f.evidence[1].line_start, f.evidence[1].line_end>>

\* A variant that keeps the entry met first.
replacesNever(f, existing) == FALSE

\* betterSeverity || (!betterSeverity && betterConfidence)
replaces(f, existing) ==
    LET betterSeverity == severityRank(f.severity) > severityRank(existing.severity)
        betterConfidence == f.confidence > existing.confidence
    IN betterSeverity \/ (~betterSeverity /\ betterConfidence)

RECURSIVE dedupeLoop(_, _)
dedupeLoop(findings, byKey) ==
    IF findings = <<>> THEN byKey
    ELSE LET f == Head(findings)
             at == {i \in 1..Len(byKey) : dedupeKey(byKey[i]) = dedupeKey(f)}
         IN IF at = {} THEN dedupeLoop(Tail(findings), Append(byKey, f))
            ELSE IF replaces(f, byKey[CHOOSE i \in at : TRUE])
                 THEN dedupeLoop(Tail(findings),
                                 [byKey EXCEPT ![CHOOSE i \in at : TRUE] = f])
                 ELSE dedupeLoop(Tail(findings), byKey)

rankedBefore(a, b) ==
    \/ severityRank(a.severity) > severityRank(b.severity)
    \/ severityRank(a.severity) = severityRank(b.severity) /\ a.confidence > b.confidence

dedupeAndRankFindings(findings) ==
    stableSort(dedupeLoop(findings, <<>>), rankedBefore)

clusterKey(f) ==
    <<f.domain, firstPathSegment(f.evidence[1].path), normalizeTitle(f.title)>>

evidencePaths(f) == {f.evidence[i].path : i \in 1..Len(f.evidence)}

\* A variant that opens a cluster for every finding.
joinClusterCopy(byCluster, f) ==
    Append(byCluster,
           [key |-> clusterKey(f), title |-> f.title, domain |-> f.domain,
            severity |-> f.severity, confidence |-> f.confidence,
            finding_ids |-> <<f.id>>, affected_paths |-> evidencePaths(f), count |-> 1])

joinCluster(byCluster, f) ==
    LET at == {i \in 1..Len(byCluster) : byCluster[i].key = clusterKey(f)}
    IN IF at = {}
       THEN Append(byCluster,
                   [key |-> clusterKey(f), title |-> f.title, domain |-> f.domain,
                    severity |-> f.severity, confidence |-> f.confidence,
                    finding_ids |-> <<f.id>>, affected_paths |-> evidencePaths(f),
                    count |-> 1])
       ELSE [byCluster EXCEPT ![CHOOSE i \in at : TRUE] =
               [@ EXCEPT !.finding_ids = Append(@, f.id),
                         !.count = @ + 1,
                         !.severity = IF severityRank(f.severity) > severityRank(@)
                                      THEN f.severity ELSE @,
                         !.confidence = Max(@, f.confidence),
                         !.affected_paths = @ \cup evidencePaths(f)]]

RECURSIVE clusterLoop(_, _)
clusterLoop(findings, byCluster) ==
    IF findings = <<>> THEN byCluster
    ELSE clusterLoop(Tail(findings), joinCluster(byCluster, Head(findings)))

clusterBefore(a, b) ==
    \/ severityRank(a.severity) > severityRank(b.severity)
    \/ /\ severityRank(a.severity) = severityRank(b.severity)
       /\ \/ a.count > b.count
          \/ a.count = b.count /\ a.confidence > b.confidence

clusterFindings(findings) ==
    stableSort(clusterLoop(findings, <<>>), clusterBefore)

\* What findings-ranked.json and findings-clusters.json hold.
reviewSynthesis(rawFindings) ==
    LET ranked == dedupeAndRankFindings(rawFindings)
        clusters == clusterFindings(ranked)
    IN [raw_count |-> Len(rawFindings),
        deduped_count |-> Len(ranked),
        cluster_count |-> Len(clusters),
        findings |-> ranked,
        clusters |-> clusters]

(***************************************************************************)
(* synthesizeRun.  An artifact path is a sequence of <<index, name>> pairs *)
(* like a node id: a node document has the path of its node, a synthesized *)
(* file the one pair <<0, file name>>.  pathKey orders the paths as        *)
(* localeCompare orders the strings: artifacts/review/..., then            *)
(* artifacts/wiki/*.md, then artifacts/wiki/nodes/... by child indexes.    *)
(***************************************************************************)
SynthPath(name) == << <<0, name>> >>

WikiArtifacts ==
    << [kind |-> "wiki_index", path |-> SynthPath("wiki/index.md")],
       [kind |-> "wiki_module_index", path |-> SynthPath("wiki/module-index.md")],
       [kind |-> "wiki_architecture_summary",
        path |-> SynthPath("wiki/architecture-summary.md")] >>

ReviewArtifacts ==
    << [kind |-> "review_ranked_findings", path |-> SynthPath("review/findings-ranked.json")],
       [kind |-> "review_clusters", path |-> SynthPath("review/findings-clusters.json")],
       [kind |-> "review_summary", path |-> SynthPath("review/summary.json")],
       [kind |-> "review_report", path |-> SynthPath("review/report.md")],
       [kind |-> "review_codequality", path |-> SynthPath("review/codequality.json")],
       [kind |-> "review_sarif", path |-> SynthPath("review/sarif.json")] >>

pathKey(path) ==
    LET name == path[1][2]
    IN CASE name = "review/codequality.json" -> <<1>>
         [] name = "review/findings-clusters.json" -> <<2>>
         [] name = "review/findings-ranked.json" -> <<3>>
         [] name = "review/report.md" -> <<4>>
         [] name = "review/sarif.json" -> <<5>>
         [] name = "review/summary.json" -> <<6>>
         [] name = "wiki/architecture-summary.md" -> <<7>>
         [] name = "wiki/index.md" -> <<8>>
         [] name = "wiki/module-index.md" -> <<9>>
         [] OTHER -> <<10>> \o [i \in 1..Len(path) |-> path[i][1]]

keyBefore(a, b) ==
    LET differ == {i \in 1..Min(Len(a), Len(b)) : a[i] # b[i]}
    IN IF differ = {} THEN Len(a) < Len(b)
       ELSE LET d == CHOOSE i \in differ : \A j \in differ : i <= j
            IN a[d] < b[d]

pathBefore(a, b) == keyBefore(pathKey(a.path), pathKey(b.path))

\* A variant of artifactMap.set that never replaces.
mapSetAppends(artifactMap, a) == Append(artifactMap, a)

\* artifactMap.set(`${a.kind}|${a.path}`, a)
mapSet(artifactMap, a) ==
    LET at == {i \in 1..Len(artifactMap) :
                  artifactMap[i].kind = a.kind /\ artifactMap[i].path = a.path}
    IN IF at = {} THEN Append(artifactMap, a)
       ELSE [artifactMap EXCEPT ![CHOOSE i \in at : TRUE] = a]

RECURSIVE mapSetAll(_, _)
mapSetAll(artifactMap, artifacts) ==
    IF artifacts = <<>> THEN artifactMap
    ELSE mapSetAll(mapSet(artifactMap, Head(artifacts)), Tail(artifacts))

NoArtifactFiles ==
    [wiki |-> [written |-> FALSE, docs |-> <<>>, results |-> <<>>],
     review |-> [written |-> FALSE, synthesis |-> reviewSynthesis(<<>>)]]

extractReviewFindings(rlog) ==
    LET results == getLatestResults(rlog)
    IN Flatten([i \in 1..Len(results) |-> results[i].findings])

\* The node documents, unique and sorted.
uniqueNodeDocs(rlog) ==
    LET nodeDocs == SelectSeq(artifactIndex(rlog), LAMBDA a : a.kind = "wiki_node")
    IN stableSort(mapSetAll(<<>>, nodeDocs), pathBefore)

synthesizeWikiArtifacts(s, files) ==
    [files |-> [files EXCEPT !.wiki =
                  [written |-> TRUE,
                   docs |-> uniqueNodeDocs(s.results),
                   results |-> nodeIds(getLatestResults(s.results))]],
     artifacts |-> WikiArtifacts \o uniqueNodeDocs(s.results)]

synthesizeReviewArtifacts(s, files) ==
    [files |-> [files EXCEPT !.review =
                  [written |-> TRUE,
                   synthesis |-> reviewSynthesis(extractReviewFindings(s.results))]],
     artifacts |-> ReviewArtifacts]

SynthTargets == {"auto", "wiki", "review", "all"}

synthesizeRun(s, files, target) ==
    LET shouldWiki == target = "all" \/ target = "wiki"
                         \/ (target = "auto" /\ s.run.mode = "wiki")
        shouldReview == target = "all" \/ target = "review"
                           \/ (target = "auto" /\ s.run.mode = "review")
        wiki == IF shouldWiki THEN synthesizeWikiArtifacts(s, files)
                ELSE [files |-> files, artifacts |-> <<>>]
        review == IF shouldReview THEN synthesizeReviewArtifacts(s, wiki.files)
                  ELSE [files |-> wiki.files, artifacts |-> <<>>]
        artifactMap == mapSetAll(mapSetAll(mapSetAll(<<>>, wiki.artifacts), review.artifacts),
                                 s.run.output_index)
    IN [store |-> [s EXCEPT !.run.output_index = stableSort(artifactMap, pathBefore)],
        files |-> review.files,
        synthesized |-> wiki.artifacts \o review.artifacts]

(***************************************************************************)
(* startRun and the inputs of the model.                                   *)
(***************************************************************************)
Modes == {"wiki", "review"}
Schedulers == {"bfs", "dfs", "hybrid"}
MaxDepthChoices == {0, 2}
MinWallClockMs == 1000
FaultCandidates == {D(0), D(3), D(4)}
RunUntilNodes == 200

startRunRecord(mode, cfg) ==
    [status |-> "running",
     mode |-> mode,
     root_node_id |-> RootNodeId,
     config |-> cfg,
     progress |-> [nodes_total |-> 1, nodes_completed |-> 0, nodes_failed |-> 0,
                   active_nodes |-> 0, max_depth_seen |-> 0],
     output_index |-> <<>>,
     checkpoint |-> [last_event_offset |-> 0],
     completed_at |-> FALSE]

startRunRootNode(cfg, now) ==
    [node_id |-> RootNodeId,
     parent_id |-> <<>>,
     depth |-> 0,
     scope_type |-> "repo",
     paths |-> <<D(0)>>,
     status |-> "queued",
     decision |-> "undecided",
     decision_reason |-> "none",
     child_ids |-> <<>>,
     confidence |-> 0,
     budgets |-> [max_depth |-> cfg.max_depth,
                  remaining_llm_calls |-> cfg.max_llm_calls,
                  remaining_tokens |-> cfg.max_tokens,
                  deadline_epoch_ms |-> now + cfg.max_wall_clock_ms],
     errors |-> <<>>,
     created_at |-> now]

StoreInitWith(schedulers, depths) ==
    /\ \E mode \in Modes, sched \in schedulers, depth \in depths :
          LET cfg == [max_depth |-> depth,
                      max_llm_calls |-> DefaultMaxLlmCalls,
                      max_tokens |-> DefaultMaxTokens,
                      max_wall_clock_ms |-> MinWallClockMs,
                      scheduler |-> sched]
          IN /\ run = startRunRecord(mode, cfg)
             /\ nodesLog = << startRunRootNode(cfg, 0) >>
    /\ resultsLog = <<>>
    /\ queueLog = << QueueEvent("node_enqueued", RootNodeId) >>
    /\ clock = 0
    /\ faulty \in {S \in SUBSET FaultCandidates : Cardinality(S) <= MaxFaulty}
    /\ lastError = "none"
    /\ cancels = 0
    /\ resumes = 0
    /\ artifactFiles = NoArtifactFiles
    /\ synths = 0

StoreInit == StoreInitWith(Schedulers, MaxDepthChoices)

(***************************************************************************)
(* The operations as actions.  A call that throws changes nothing on disk. *)
(***************************************************************************)
disk == <<run, nodesLog, resultsLog, queueLog>>

SetStore(s) ==
    /\ run' = s.run
    /\ nodesLog' = s.nodes
    /\ resultsLog' = s.results
    /\ queueLog' = s.queue
    /\ clock' = s.clock

Returned == lastError' = "none"
Threw(op) == lastError' = op /\ UNCHANGED <<run, nodesLog, resultsLog, queueLog, clock>>

\* A variant without the test of run.status.
ExecuteStepUnguarded(maxNodes) ==
    /\ (\E s \in {executeStep(Store, maxNodes).store} : SetStore(s)) /\ Returned
    /\ UNCHANGED <<faulty, cancels, resumes, artifactFiles, synths>>

ExecuteStep(maxNodes) ==
    /\ IF run.status # "running"
       THEN Threw("executeStep")
       ELSE (\E s \in {executeStep(Store, maxNodes).store} : SetStore(s)) /\ Returned
    /\ UNCHANGED <<faulty, cancels, resumes, artifactFiles, synths>>

RunUntil(maxNodes) ==
    /\ IF run.status # "running"
       THEN Threw("runUntil")
       ELSE (\E s \in {runUntil(Store, maxNodes)} : SetStore(s)) /\ Returned
    /\ UNCHANGED <<faulty, cancels, resumes, artifactFiles, synths>>

GetStatus ==
    /\ \E s \in {getStatus(Store)} : SetStore(s)
    /\ Returned
    /\ UNCHANGED <<faulty, cancels, resumes, artifactFiles, synths>>

CancelRun ==
    /\ IF cancelRejects(run.status)
       THEN Threw("cancelRun") /\ UNCHANGED cancels
       ELSE /\ cancels + resumes < MaxLifecycleCalls
            /\ \E s \in {cancelRun(Store)} : SetStore(s)
            /\ Returned
            /\ cancels' = cancels + 1
    /\ UNCHANGED <<faulty, resumes, artifactFiles, synths>>

ResumeRun ==
    /\ IF run.status = "running"
       THEN Returned /\ UNCHANGED <<run, nodesLog, resultsLog, queueLog, clock, resumes>>
       ELSE IF run.status = "completed"
       THEN Threw("resumeRun") /\ UNCHANGED resumes
       ELSE /\ cancels + resumes < MaxLifecycleCalls
            /\ \E s \in {resumeRun(Store)} : SetStore(s)
            /\ Returned
            /\ resumes' = resumes + 1
    /\ UNCHANGED <<faulty, cancels, artifactFiles, synths>>

SynthesizeRun(target) ==
    /\ synths < MaxSynthCalls
    /\ \E out \in {synthesizeRun(Store, artifactFiles, target)} :
          /\ SetStore(out.store)
          /\ artifactFiles' = out.files
    /\ Returned
    /\ synths' = synths + 1
    /\ UNCHANGED <<faulty, cancels, resumes>>

\* Time passes: the run's deadline goes by.
DeadlinePasses ==
    /\ clock <= MinWallClockMs
    /\ clock' = MinWallClockMs + 1
    /\ UNCHANGED <<run, nodesLog, resultsLog, queueLog, faulty, lastError, cancels, resumes,
                   artifactFiles, synths>>

(***************************************************************************)
(* The interactive engine (RLMEngine).  One run tree: the root engine and  *)
(* the child engines spawned by /rlm_query share sharedState and the call  *)
(* tree.  A callback runs without interruption up to its next await, so    *)
(* each action below is the code between two awaits.                       *)
(***************************************************************************)
MaxCalls == 3                       \* callbacks served in one run tree
MaxLLMCallsChoices == {1, 2}        \* config.maxLLMCalls
EngineDepthChoices == {0, 1, 2}     \* config.maxDepth

newEngine(depth, callId) == [depth |-> depth, status |-> "running", call |-> callId]

newCall(type, engine) ==
    [type |-> type, engine |-> engine, status |-> "running", pending |-> "none", child |-> 0]

\* A variant that lets one more call through.
limitExceeded(llmCalls, maxLLMCalls) == llmCalls > maxLLMCalls

\* callSubLLM's guard.
limitReached(llmCalls, maxLLMCalls) == llmCalls >= maxLLMCalls

\* A variant that falls back one level too late.
beyondMaxDepth(currentDepth, maxDepth) == currentDepth > maxDepth

\* spawnChildRLM's guard.
atMaxDepth(currentDepth, maxDepth) == currentDepth >= maxDepth

\* A variant that counts a rejected call too.
callSubLLMCountsRejected(shared) ==
    [sharedState |-> [shared EXCEPT !.llmCalls = @ + 1],
     pending |-> IF limitReached(shared.llmCalls, config.maxLLMCalls)
                 THEN "rejected" ELSE "llm"]

\* callSubLLM up to its await: the throw, or the increment and the model call.
callSubLLM(shared) ==
    IF limitReached(shared.llmCalls, config.maxLLMCalls)
    THEN [sharedState |-> shared, pending |-> "rejected"]
    ELSE [sharedState |-> [shared EXCEPT !.llmCalls = @ + 1], pending |-> "llm"]

canServe(e) ==
    /\ e \in 1..Len(engines)
    /\ engines[e].status = "running"
    /\ Len(calls) < MaxCalls

\* The /llm_query handler up to the await of callSubLLM.
LlmQuery(e) ==
    /\ canServe(e)
    /\ LET callId == Len(calls) + 1
           sub == callSubLLM(sharedState)
       IN /\ activeCalls' = Append(activeCalls, callId)
          /\ calls' = Append(calls, [newCall("llm_query", e) EXCEPT !.pending = sub.pending])
          /\ sharedState' = sub.sharedState
    /\ UNCHANGED <<engines, completedCalls, config>>

\* spawnChildRLM up to its await: at maxDepth it is callSubLLM, below it a
\* child engine one level deeper starts to run.
spawnChildRLM(e, callId, shared) ==
    IF atMaxDepth(engines[e].depth, config.maxDepth)
    THEN [engines |-> engines, child |-> 0,
          sharedState |-> callSubLLM(shared).sharedState,
          pending |-> callSubLLM(shared).pending]
    ELSE [engines |-> Append(engines, newEngine(engines[e].depth + 1, callId)),
          child |-> Len(engines) + 1,
          sharedState |-> shared,
          pending |-> "child"]

\* The /rlm_query handler up to the await of spawnChildRLM.
RlmQuery(e) ==
    /\ canServe(e)
    /\ LET callId == Len(calls) + 1
           spawn == spawnChildRLM(e, callId, [sharedState EXCEPT !.rlmCalls = @ + 1])
       IN /\ activeCalls' = Append(activeCalls, callId)
          /\ engines' = spawn.engines
          /\ calls' = Append(calls, [newCall("rlm_query", e)
                                       EXCEPT !.pending = spawn.pending, !.child = spawn.child])
          /\ sharedState' = spawn.sharedState
    /\ UNCHANGED <<completedCalls, config>>

\* The rest of a handler: the call leaves activeCalls and joins completedCalls.
finishCall(callId, status) ==
    /\ calls' = [calls EXCEPT ![callId].status = status, ![callId].pending = "none"]
    /\ activeCalls' = SelectSeq(activeCalls, LAMBDA c : c # callId)
    /\ completedCalls' = Append(completedCalls, callId)
    /\ UNCHANGED <<sharedState, engines, config>>

\* The model call of a sub-LLM call resolves or rejects.
SubLLMSettles(callId) ==
    /\ callId \in 1..Len(calls)
    /\ calls[callId].pending = "llm"
    /\ \E status \in {"completed", "error"} : finishCall(callId, status)

\* The handler catches the limit error of callSubLLM.
LimitErrorCaught(callId) ==
    /\ callId \in 1..Len(calls)
    /\ calls[callId].pending = "rejected"
    /\ finishCall(callId, "error")

\* The child engine's run() has settled: its /rlm_query handler goes on.
ChildSettles(callId) ==
    /\ callId \in 1..Len(calls)
    /\ calls[callId].pending = "child"
    /\ engines[calls[callId].child].status # "running"
    /\ finishCall(callId, IF engines[calls[callId].child].status = "returned"
                          THEN "completed" ELSE "error")

\* An engine's run() returns an answer or throws.
EngineSettles(e) ==
    /\ e \in 1..Len(engines)
    /\ engines[e].status = "running"
    /\ \E status \in {"returned", "threw"} :
          engines' = [engines EXCEPT ![e].status = status]
    /\ UNCHANGED <<sharedState, calls, activeCalls, completedCalls, config>>

EngineInit ==
    /\ sharedState = [llmCalls |-> 0, rlmCalls |-> 0]
    /\ engines = << newEngine(0, 0) >>
    /\ calls = <<>>
    /\ activeCalls = <<>>
    /\ completedCalls = <<>>
    /\ config \in [maxLLMCalls : MaxLLMCallsChoices, maxDepth : EngineDepthChoices]

EngineIdle ==
    /\ sharedState = [llmCalls |-> 0, rlmCalls |-> 0]
    /\ engines = <<>>
    /\ calls = <<>>
    /\ activeCalls = <<>>
    /\ completedCalls = <<>>
    /\ config = [maxLLMCalls |-> 0, maxDepth |-> 0]

(***************************************************************************)
(* RLMEngine.run.  Each action is the code of run() between two awaits.    *)
(* loops[e] belongs to engines[e].                                         *)
(***************************************************************************)
MaxRunCalls == 2                    \* callbacks served in one run of the loop model
MaxIterationsChoices == {1, 2, 3}   \* config.maxIterations
MaxErrorsChoices == {1, 2}          \* config.maxErrors

Null == "null"                      \* JSON null, None, undefined

\* What a piece of code does in the interpreter, as far as the driver reports.
Programs ==
    { [final |-> "none", value |-> Null, present |-> FALSE, raises |-> FALSE],
      [final |-> "none", value |-> Null, present |-> FALSE, raises |-> TRUE],
      [final |-> "FINAL", value |-> "answer", present |-> FALSE, raises |-> FALSE],
      [final |-> "FINAL", value |-> "answer", present |-> FALSE, raises |-> TRUE],
      [final |-> "SUBMIT", value |-> "", present |-> FALSE, raises |-> FALSE],
      [final |-> "FINAL_VAR", value |-> "answer", present |-> TRUE, raises |-> FALSE],
      [final |-> "FINAL_VAR", value |-> "", present |-> TRUE, raises |-> FALSE],
      [final |-> "FINAL_VAR", value |-> Null, present |-> FALSE, raises |-> FALSE] }

NoResult == [how |-> "none", finalAnswer |-> Null, finalVar |-> Null,
             submitted |-> Null, error |-> Null]

\* The driver's result block, as execute() hands it on.
driverResult(program) ==
    [how |-> "result",
     finalAnswer |-> IF program.final \in {"FINAL", "SUBMIT"} THEN program.value ELSE Null,
     finalVar |-> IF program.final = "FINAL_VAR" /\ program.present
                  THEN program.value ELSE Null,
     submitted |-> IF program.final \in {"FINAL", "SUBMIT"} THEN program.value ELSE Null,
     error |-> IF program.raises THEN "traceback" ELSE Null]

\* execute() resolves with the driver's block, on its timer, or on stdout's close.
ExecuteHows == {"result", "timeout", "process_exit"}
executeResult(how, program) ==
    IF how = "result" THEN driverResult(program)
    ELSE [NoResult EXCEPT !.how = how, !.error = how]

\* a || b
jsOr(a, b) == IF a \in {Null, ""} THEN b ELSE a
finalAnswerOf(result) == jsOr(jsOr(result.finalAnswer, result.finalVar), result.submitted)

newLoop ==
    [pc |-> "start", iteration |-> 0, rootCalls |-> 0, fallbackCalls |-> 0,
     consecutiveErrors |-> 0, errorsInRow |-> 0,
     repl |-> "none", server |-> "none", tempDir |-> "exists",
     result |-> NoResult, outcome |-> "none", answer |-> Null]

\* A variant of the finally block that releases nothing.
finallyKeepsAll(loop) == loop

\* finally: repl?.shutdown(); server?.close(); rmSync(tempDir).
finallyBlock(loop) ==
    [loop EXCEPT !.repl = IF @ = "none" THEN "none" ELSE "dead",
                 !.server = IF @ = "none" THEN "none" ELSE "closed",
                 !.tempDir = "removed"]

\* run() settles: it returns answer, or throws.
settleRun(e, loop, status, outcome, answer) ==
    /\ loops' = [loops EXCEPT ![e] = finallyBlock([loop EXCEPT !.pc = "done",
                                                               !.outcome = outcome,
                                                               !.answer = answer])]
    /\ engines' = [engines EXCEPT ![e].status = status]

goOn(e, loop) ==
    /\ loops' = [loops EXCEPT ![e] = loop]
    /\ UNCHANGED engines

isAt(e, pc) ==
    /\ e \in 1..Len(loops)
    /\ engines[e].status = "running"
    /\ loops[e].pc = pc

\* Up to the loop: the context file, the server and the interpreter process.
\* "ready" never comes when the interpreter fails to start.
SetupStages == {"context", "listen", "repl", "unready", "ok"}
Setup(e) ==
    /\ isAt(e, "start")
    /\ \E stage \in SetupStages :
          CASE stage = "context" ->
                  settleRun(e, loops[e], "threw", "error", Null)
            [] stage = "listen" ->
                  settleRun(e, [loops[e] EXCEPT !.server = "created"], "threw", "error", Null)
            [] stage = "repl" ->
                  settleRun(e, [loops[e] EXCEPT !.server = "listening"], "threw", "error", Null)
            [] stage = "unready" ->
                  goOn(e, [loops[e] EXCEPT !.server = "listening", !.repl = "unready",
                                           !.pc = "top"])
            [] OTHER ->
                  goOn(e, [loops[e] EXCEPT !.server = "listening", !.repl = "idle",
                                           !.pc = "top"])
    /\ UNCHANGED <<sharedState, calls, activeCalls, completedCalls, config, signal>>

\* A variant of the loop condition that admits one more iteration.
loopContinuesOnceMore(iteration, maxIterations) == iteration <= maxIterations + 1

\* iteration <= this.config.maxIterations
loopContinues(iteration, maxIterations) == iteration <= maxIterations

\* A variant of the check that never sees the abort.
abortIgnored(aborted) == FALSE

\* if (signal?.aborted)
abortSeen(aborted) == aborted

\* The head of the for loop: leave it for extractFallback, throw on an aborted
\* signal, or call the root model.
IterationTop(e) ==
    /\ isAt(e, "top")
    /\ LET loop == [loops[e] EXCEPT !.iteration = @ + 1, !.result = NoResult]
       IN IF ~loopContinues(loop.iteration, config.maxIterations)
          THEN goOn(e, [loop EXCEPT !.pc = "fallback", !.fallbackCalls = @ + 1])
          ELSE IF abortSeen(signal)
               THEN settleRun(e, loop, "threw", "Aborted", Null)
               ELSE goOn(e, [loop EXCEPT !.pc = "model", !.rootCalls = @ + 1])
    /\ UNCHANGED <<sharedState, calls, activeCalls, completedCalls, config, signal>>

\* callLLM settles: it throws, the response holds no code, or the code is
\* handed to execute(), which throws when the interpreter never got ready.
ModelReplies == {"throws", "no code", "code"}
RootModelSettles(e) ==
    /\ isAt(e, "model")
    /\ \E reply \in ModelReplies :
          CASE reply = "throws" ->
                  settleRun(e, loops[e], "threw", "error", Null)
            [] reply = "no code" ->
                  goOn(e, [loops[e] EXCEPT !.pc = "top"])
            [] OTHER ->
                  IF loops[e].repl \in {"unready"}
                  THEN settleRun(e, loops[e], "threw", "error", Null)
                  ELSE goOn(e, [loops[e] EXCEPT !.pc = "exec",
                                                !.repl = IF @ = "dead" THEN "dead" ELSE "busy"])
    /\ UNCHANGED <<sharedState, calls, activeCalls, completedCalls, config, signal>>

\* A variant that stops one error later.
tooManyErrorsLate(consecutiveErrors, maxErrors) == consecutiveErrors > maxErrors

\* this.consecutiveErrors >= this.config.maxErrors
tooManyErrors(consecutiveErrors, maxErrors) == consecutiveErrors >= maxErrors

\* The rest of the iteration once execute() has resolved with result.
afterExecute(e, loop, result) ==
    IF finalAnswerOf(result) # Null
    THEN settleRun(e, loop, "returned", "final", finalAnswerOf(result))
    ELSE IF result.error # Null
         THEN IF tooManyErrors(loop.consecutiveErrors + 1, config.maxErrors)
              THEN settleRun(e, [loop EXCEPT !.consecutiveErrors = @ + 1],
                             "threw", "TooManyErrors", Null)
              ELSE goOn(e, [loop EXCEPT !.consecutiveErrors = @ + 1, !.pc = "top"])
         ELSE goOn(e, [loop EXCEPT !.consecutiveErrors = 0, !.pc = "top"])

\* execute() resolves.  A dead interpreter only closes stdout; after a timeout
\* the interpreter is still busy with the code.
ExecuteSettlesOn(e, programs) ==
    /\ isAt(e, "exec")
    /\ \E how \in ExecuteHows, program \in programs :
          /\ loops[e].repl = "dead" => how # "result"
          /\ LET result == executeResult(how, program)
                 loop == [loops[e] EXCEPT
                            !.result = result,
                            !.errorsInRow = IF result.error # Null THEN @ + 1 ELSE 0,
                            !.repl = CASE how = "result" -> "idle"
                                       [] how = "timeout" -> @
                                       [] OTHER -> "dead"]
             IN afterExecute(e, loop, result)
    /\ UNCHANGED <<sharedState, calls, activeCalls, completedCalls, config, signal>>

ExecuteSettles(e) == ExecuteSettlesOn(e, Programs)

\* extractFallback's model call settles.
FallbackSettles(e) ==
    /\ isAt(e, "fallback")
    /\ \/ settleRun(e, loops[e], "returned", "fallback", "fallback text")
       \/ settleRun(e, loops[e], "threw", "error", Null)
    /\ UNCHANGED <<sharedState, calls, activeCalls, completedCalls, config, signal>>

\* The caller aborts the signal.
Abort ==
    /\ ~signal
    /\ signal' = TRUE
    /\ UNCHANGED <<engineVars, loops>>

\* The interpreter of engine e is running code and posts to the loopback server.
interpreterCalls(e) ==
    /\ e \in 1..Len(loops)
    /\ loops[e].repl = "busy"
    /\ loops[e].server = "listening"
    /\ Len(calls) < MaxRunCalls

RunLlmQuery(e) ==
    /\ interpreterCalls(e)
    /\ LlmQuery(e)
    /\ UNCHANGED loopVars

\* A spawned child engine starts its own run().  The run trees of the loop
\* model are chains: an engine is spawned only at a depth that has none yet.
RunRlmQuery(e) ==
    /\ interpreterCalls(e)
    /\ \/ atMaxDepth(engines[e].depth, config.maxDepth)
       \/ \A c \in 1..Len(engines) : engines[c].depth <= engines[e].depth
    /\ RlmQuery(e)
    /\ loops' = IF Len(engines') > Len(engines) THEN Append(loops, newLoop) ELSE loops
    /\ UNCHANGED signal

\* One engine on its own: its interpreter makes no callbacks.
LoopInit ==
    /\ sharedState = [llmCalls |-> 0, rlmCalls |-> 0]
    /\ engines = << newEngine(0, 0) >>
    /\ calls = <<>>
    /\ activeCalls = <<>>
    /\ completedCalls = <<>>
    /\ config \in [maxLLMCalls : {1}, maxDepth : {0},
                   maxIterations : MaxIterationsChoices, maxErrors : MaxErrorsChoices]
    /\ loops = << newLoop >>
    /\ signal = FALSE

\* A run tree: the interpreters call back, and a child engine may be spawned.
TreeConfigs ==
    { [maxLLMCalls |-> 1, maxDepth |-> 0, maxIterations |-> 1, maxErrors |-> 1],
      [maxLLMCalls |-> 1, maxDepth |-> 1, maxIterations |-> 2, maxErrors |-> 2] }
TreePrograms == {program \in Programs : program.final \in {"none", "FINAL"} /\ ~program.raises}

RunInit ==
    /\ sharedState = [llmCalls |-> 0, rlmCalls |-> 0]
    /\ engines = << newEngine(0, 0) >>
    /\ calls = <<>>
    /\ activeCalls = <<>>
    /\ completedCalls = <<>>
    /\ config \in TreeConfigs
    /\ loops = << newLoop >>
    /\ signal = FALSE

LoopIdle ==
    /\ loops = <<>>
    /\ signal = FALSE

(***************************************************************************)
(* decideNode on its own: the arguments are drawn, Decide applies it.      *)
(***************************************************************************)
DecideModes == {"generic", "wiki", "review"}
DecideDepths == {0, 1, 2}
DecideMaxDepths == {1, 2}
DecideBudgets == {0, 1}
DecideNows == {MinWallClockMs, MinWallClockMs + 1}
DecidePaths ==
    { <<D(3)>>, <<D(2)>>, <<D(1)>>, <<D(0)>>,
      FileRange(1, 12), FileRange(1, 13), FileRange(1, 16), FileRange(1, 17),
      <<BigFile>>, <<BigFile, TinyFile>>, <<BigFile, MidFile>>,
      <<BigFile, MidFile, TinyFile>> }

decideRun(mode, maxDepth) ==
    startRunRecord(mode, [max_depth |-> maxDepth,
                          max_llm_calls |-> DefaultMaxLlmCalls,
                          max_tokens |-> DefaultMaxTokens,
                          max_wall_clock_ms |-> MinWallClockMs,
                          scheduler |-> "bfs"])

decideArgNode(r, depth, paths, llm, tokens) ==
    [startRunRootNode(r.config, 0)
        EXCEPT !.depth = depth, !.paths = paths,
               !.budgets.remaining_llm_calls = llm,
               !.budgets.remaining_tokens = tokens]

AppliedIdle ==
    applied = [op |-> "none"]

DecideInit ==
    /\ AppliedIdle
    /\ \E mode \in DecideModes, maxDepth \in DecideMaxDepths, depth \in DecideDepths,
       paths \in DecidePaths, llm \in DecideBudgets, tokens \in DecideBudgets,
          now \in DecideNows :
        decided = [run |-> decideRun(mode, maxDepth),
                   node |-> decideArgNode(decideRun(mode, maxDepth), depth, paths, llm, tokens),
                   now |-> now,
                   called |-> FALSE,
                   outcome |-> [decision |-> "undecided", reason |-> "none",
                                metrics |-> [fileCount |-> 0, totalBytes |-> 0,
                                             sampledFiles |-> <<>>]]]

DecidedIdle ==
    decided = [called |-> FALSE]

DecideIdle ==
    DecidedIdle /\ AppliedIdle

Decide ==
    /\ ~decided.called
    /\ decided' = [decided EXCEPT !.called = TRUE,
                                  !.outcome = decideNode(decided.run, decided.node, decided.now)]
    /\ UNCHANGED applied

(***************************************************************************)
(* splitNode applied to drawn nodes: scopes that split by directory and    *)
(* into two, three and four file groups, and budgets around the cost of a  *)
(* split.                                                                  *)
(***************************************************************************)
SplitCalls == {1, 2, 3, 5, DefaultMaxLlmCalls}
SplitTokens == {1, SplitCostTokens - 1, SplitCostTokens, SplitCostTokens + 1,
                SplitCostTokens + 3, SplitCostTokens + 5, DefaultMaxTokens}
SplitDeadlines == {MinWallClockMs, MinWallClockMs + 1}
SplitPaths ==
    { <<D(0)>>, <<D(1)>>, <<D(2)>>, <<D(3), D(4)>>, FileRange(2, 20), FileRange(1, 28) }

SplitInit ==
    \E paths \in SplitPaths, llm \in SplitCalls, tokens \in SplitTokens,
       deadline \in SplitDeadlines :
        applied = [op |-> "splitNode",
                   run |-> decideRun("review", 2),
                   node |-> [decideArgNode(decideRun("review", 2), 0, paths, llm, tokens)
                               EXCEPT !.budgets.deadline_epoch_ms = deadline],
                   called |-> FALSE,
                   children |-> <<>>]

Split ==
    /\ applied.op = "splitNode"
    /\ ~applied.called
    /\ applied' = [applied EXCEPT !.called = TRUE,
                                  !.children = splitNode(applied.run, applied.node, 1)]
    /\ UNCHANGED decided

(***************************************************************************)
(* The review synthesis applied to drawn findings: up to MaxRawFindings    *)
(* findings over three places, two of which share a cluster, with          *)
(* severities and confidences that collide on the dedupe key.              *)
(***************************************************************************)
MaxRawFindings == 3
FindingPlaces ==
    { [title |-> "Leak", path |-> F(2)],
      [title |-> "leak!", path |-> F(2)],
      [title |-> "Leak", path |-> F(16)] }
FindingSeverities == {"critical", "medium", "low"}
FindingConfidences == {50, 90}

drawnFinding(place, severity, confidence) ==
    [id |-> <<place.title, place.path, severity, confidence>>,
     domain |-> "security",
     severity |-> severity,
     confidence |-> confidence,
     title |-> place.title,
     evidence |-> << [path |-> place.path, line_start |-> 1, line_end |-> 1] >>]

DrawnFindings ==
    {drawnFinding(place, severity, confidence) :
        place \in FindingPlaces, severity \in FindingSeverities,
        confidence \in FindingConfidences}

SynthInit ==
    \E n \in 0..MaxRawFindings : \E raw \in [1..n -> DrawnFindings] :
        applied = [op |-> "reviewSynthesis", raw |-> raw, called |-> FALSE,
                   out |-> reviewSynthesis(<<>>)]

Synthesize ==
    /\ applied.op = "reviewSynthesis"
    /\ ~applied.called
    /\ applied' = [applied EXCEPT !.called = TRUE, !.out = reviewSynthesis(applied.raw)]
    /\ UNCHANGED decided

(***************************************************************************)
(* scanReviewFindings applied to drawn file lists: an oversized file, then *)
(* files without a pattern, files with one and files with all three.       *)
(***************************************************************************)
MaxScanTodo == 2
MaxScanTriple == 10
ScanFillers == {0, MaxFilesToInspect - 2}

scanList(big, fillers, todos, triples) ==
    (IF big THEN <<BigFile>> ELSE <<>>)
      \o [i \in 1..fillers |-> F(299 + i)]
      \o [i \in 1..todos |-> F(99 + i)]
      \o [i \in 1..triples |-> F(199 + i)]

ScanInit ==
    \E big \in BOOLEAN, fillers \in ScanFillers, todos \in 0..MaxScanTodo,
       triples \in 0..MaxScanTriple :
        applied = [op |-> "scanReviewFindings",
                   run |-> decideRun("review", 2),
                   node |-> decideArgNode(decideRun("review", 2), 0, <<D(0)>>,
                                          DefaultMaxLlmCalls, DefaultMaxTokens),
                   files |-> scanList(big, fillers, todos, triples),
                   called |-> FALSE,
                   findings |-> <<>>]

Scan ==
    /\ applied.op = "scanReviewFindings"
    /\ ~applied.called
    /\ applied' = [applied EXCEPT
                      !.called = TRUE,
                      !.findings = scanReviewFindings(applied.run, applied.node, applied.files)]
    /\ UNCHANGED decided

(***************************************************************************)
(* PersistentREPL.execute against the interpreter process.  The engine     *)
(* awaits each execute before it makes the next.  stdin holds the code     *)
(* messages not yet read, stdout the result blocks not yet emitted as data *)
(* events; a block is named by the call whose code produced it.  A data    *)
(* event with no listener attached is lost.                                *)
(***************************************************************************)
MaxExecutes == 3

PipeInit ==
    applied = [op |-> "execute",
               calls |-> 0,          \* execute() calls made
               listener |-> 0,       \* the call whose onData/onClose/timer are set, or 0
               stdin |-> <<>>,
               running |-> 0,        \* the call whose code the interpreter runs, or 0
               stdout |-> <<>>,
               alive |-> TRUE,
               closed |-> FALSE,     \* stdout has emitted close
               resolved |-> <<>>]    \* [call, how, block] in the order of the resolves

\* doResolve: resolve once and clean up.
doResolve(st, how, block) ==
    [st EXCEPT !.listener = 0,
               !.resolved = Append(@, [call |-> st.listener, how |-> how, block |-> block])]

\* A variant that resolves only with the block of its own call.
onDataOwnBlock(st, block) ==
    IF block = st.listener THEN doResolve(st, "result", block) ELSE st

\* onData: the first complete result block resolves the pending call.
onData(st, block) == doResolve(st, "result", block)

\* execute(code): set the listeners and the timer, write the message.
Execute ==
    /\ applied.op = "execute"
    /\ applied.listener = 0
    /\ applied.calls < MaxExecutes
    /\ applied' = [applied EXCEPT !.calls = @ + 1,
                                  !.listener = applied.calls + 1,
                                  !.stdin = IF applied.alive THEN Append(@, applied.calls + 1)
                                            ELSE @]
    /\ UNCHANGED decided

\* The main loop reads the next message and runs its code.
InterpreterReads ==
    /\ applied.op = "execute"
    /\ applied.alive /\ applied.running = 0 /\ applied.stdin # <<>>
    /\ applied' = [applied EXCEPT !.running = Head(applied.stdin), !.stdin = Tail(@)]
    /\ UNCHANGED decided

\* The code has run: the result block is printed.
InterpreterPrints ==
    /\ applied.op = "execute"
    /\ applied.alive /\ applied.running # 0
    /\ applied' = [applied EXCEPT !.running = 0, !.stdout = Append(@, applied.running)]
    /\ UNCHANGED decided

\* stdout emits a data event.
OnData ==
    /\ applied.op = "execute"
    /\ applied.stdout # <<>>
    /\ applied' = IF applied.listener = 0
                  THEN [applied EXCEPT !.stdout = Tail(@)]
                  ELSE onData([applied EXCEPT !.stdout = Tail(@)], Head(applied.stdout))
    /\ UNCHANGED decided

\* The 120 s timer of the pending call fires.
OnTimer ==
    /\ applied.op = "execute"
    /\ applied.listener # 0
    /\ applied' = doResolve(applied, "timeout", 0)
    /\ UNCHANGED decided

\* The interpreter process exits; stdout closes once its data is out.
ProcessExits ==
    /\ applied.op = "execute"
    /\ \/ /\ applied.alive
          /\ applied' = [applied EXCEPT !.alive = FALSE, !.running = 0, !.stdin = <<>>]
       \/ /\ ~applied.alive /\ ~applied.closed /\ applied.stdout = <<>>
          /\ applied' = IF applied.listener = 0
                        THEN [applied EXCEPT !.closed = TRUE]
                        ELSE doResolve([applied EXCEPT !.closed = TRUE], "process_exit", 0)
    /\ UNCHANGED decided

(***************************************************************************)
(* The driver script of the interpreter: _namespace, and one iteration of  *)
(* the main loop for each code block it receives.  A name is bound to the  *)
(* original helper, to a value of the user's, or unbound.  A code block is *)
(* a sequence of statements; a raise ends it, what ran before stays.       *)
(***************************************************************************)
MaxExecutions == 3
Helpers == {"context", "llm_query", "llm_query_batched", "rlm_query", "rlm_query_batched",
            "SHOW_VARS", "FINAL", "FINAL_VAR", "SUBMIT", "strip_fences"}
UserNames == {"x", "y"}
UserValues == {"a", "b"}

initialNamespace ==
    [n \in Helpers \cup UserNames |-> IF n \in Helpers THEN "original" ELSE "unbound"]

Statements ==
    {[op |-> "set", name |-> n, value |-> "user"] : n \in Helpers}
      \cup {[op |-> "set", name |-> n, value |-> v] : n \in UserNames, v \in UserValues}
      \cup {[op |-> "del", name |-> n, value |-> "unbound"] : n \in {"context", "FINAL", "x"}}
      \cup {[op |-> "raise", name |-> "x", value |-> "unbound"]}

ReplCodes ==
    { <<>> } \cup {<<a>> : a \in Statements} \cup {<<a, b>> : a \in Statements, b \in Statements}

\* The functions bound again before exec: every helper but context.
rebindFunctions(ns) ==
    [n \in DOMAIN ns |-> IF n \in Helpers \ {"context"} THEN "original" ELSE ns[n]]

\* A variant of the restore that leaves context as the code left it.
restoreScaffoldFunctionsOnly(ns) ==
    [n \in DOMAIN ns |-> IF n \in Helpers \ {"context"} THEN "original" ELSE ns[n]]

\* The scaffold restored after exec: context and every function.
restoreScaffold(ns) ==
    [n \in DOMAIN ns |-> IF n \in Helpers THEN "original" ELSE ns[n]]

\* exec(code, _namespace): the statements up to the first raise.
ranStatements(code) ==
    LET raises == {i \in 1..Len(code) : code[i].op = "raise"}
    IN IF raises = {} THEN code
       ELSE SubSeq(code, 1, (CHOOSE i \in raises : \A j \in raises : i <= j) - 1)

RECURSIVE execStatements(_, _)
execStatements(ns, stmts) ==
    IF stmts = <<>> THEN ns
    ELSE execStatements([ns EXCEPT ![Head(stmts).name] = Head(stmts).value], Tail(stmts))

ReplInit ==
    applied = [op |-> "exec",
               namespace |-> initialNamespace,
               atStart |-> initialNamespace,
               code |-> <<>>,
               executions |-> 0]

ReplExec(code) ==
    /\ applied.op = "exec"
    /\ applied.executions < MaxExecutions
    /\ applied' = [op |-> "exec",
                   atStart |-> rebindFunctions(applied.namespace),
                   namespace |-> restoreScaffold(
                                    execStatements(rebindFunctions(applied.namespace),
                                                   ranStatements(code))),
                   code |-> code,
                   executions |-> applied.executions + 1]
    /\ UNCHANGED decided

Init == StoreInit /\ EngineIdle /\ DecideIdle /\ LoopIdle

Next ==
    \/ (\E m \in 1..MaxStepNodes : ExecuteStep(m)) /\ UNCHANGED <<engineVars, decideVars, loopVars>>
    \/ RunUntil(RunUntilNodes) /\ UNCHANGED <<engineVars, decideVars, loopVars>>
    \/ GetStatus /\ UNCHANGED <<engineVars, decideVars, loopVars>>
    \/ CancelRun /\ UNCHANGED <<engineVars, decideVars, loopVars>>
    \/ ResumeRun /\ UNCHANGED <<engineVars, decideVars, loopVars>>
    \/ DeadlinePasses /\ UNCHANGED <<engineVars, decideVars, loopVars>>

Spec == Init /\ [][Next]_vars

\* The runner on runs of every max_depth up to the depth of the tree.
DepthChoices == {0, 1, 2}

DepthInit ==
    /\ StoreInitWith(Schedulers, DepthChoices)
    /\ EngineIdle /\ DecideIdle /\ LoopIdle

DepthSpec == DepthInit /\ [][Next]_vars

\* The runner with synthesizeRun among its operations, on the runs of one
\* scheduler with at most one faulty scope, within their deadline.
SynthRunInit ==
    /\ Init
    /\ run.config.scheduler = "bfs"
    /\ faulty \in {{}, {D(3)}}

SynthRunNext ==
    \/ (\E m \in 1..MaxStepNodes : ExecuteStep(m)) /\ UNCHANGED <<engineVars, decideVars, loopVars>>
    \/ RunUntil(RunUntilNodes) /\ UNCHANGED <<engineVars, decideVars, loopVars>>
    \/ GetStatus /\ UNCHANGED <<engineVars, decideVars, loopVars>>
    \/ CancelRun /\ UNCHANGED <<engineVars, decideVars, loopVars>>
    \/ ResumeRun /\ UNCHANGED <<engineVars, decideVars, loopVars>>
    \/ (\E target \in SynthTargets : SynthesizeRun(target))
          /\ UNCHANGED <<engineVars, decideVars, loopVars>>

SynthRunSpec == SynthRunInit /\ [][SynthRunNext]_vars

\* A run that is never cancelled, stepped again and again by its caller.
StepCalls ==
    \/ (\E m \in 1..MaxStepNodes : ExecuteStep(m)) /\ UNCHANGED <<engineVars, decideVars, loopVars>>
    \/ RunUntil(RunUntilNodes) /\ UNCHANGED <<engineVars, decideVars, loopVars>>

SteppedNext ==
    \/ StepCalls
    \/ GetStatus /\ UNCHANGED <<engineVars, decideVars, loopVars>>
    \/ DeadlinePasses /\ UNCHANGED <<engineVars, decideVars, loopVars>>

SteppedSpec == Init /\ [][SteppedNext]_vars /\ WF_vars(StepCalls)

\* The engine alone, beside a store that holds one fresh run.
StoreIdle ==
    /\ StoreInit
    /\ run.mode = "wiki"
    /\ run.config.scheduler = "bfs"
    /\ run.config.max_depth = 0
    /\ faulty = {}

EngineNext ==
    \/ (\E e \in 1..Len(engines) : LlmQuery(e)) /\ UNCHANGED <<storeVars, decideVars, loopVars>>
    \/ (\E e \in 1..Len(engines) : RlmQuery(e)) /\ UNCHANGED <<storeVars, decideVars, loopVars>>
    \/ (\E c \in 1..Len(calls) : SubLLMSettles(c)) /\ UNCHANGED <<storeVars, decideVars, loopVars>>
    \/ (\E c \in 1..Len(calls) : LimitErrorCaught(c)) /\ UNCHANGED <<storeVars, decideVars, loopVars>>
    \/ (\E c \in 1..Len(calls) : ChildSettles(c)) /\ UNCHANGED <<storeVars, decideVars, loopVars>>
    \/ (\E e \in 1..Len(engines) : EngineSettles(e)) /\ UNCHANGED <<storeVars, decideVars, loopVars>>

EngineStart == StoreIdle /\ EngineInit /\ DecideIdle /\ LoopIdle

EngineSpec == EngineStart /\ [][EngineNext]_vars

\* decideNode alone, beside an idle store and no engine.
DecideStart == StoreIdle /\ EngineIdle /\ DecideInit /\ LoopIdle

DecideNext == Decide /\ UNCHANGED <<storeVars, engineVars, loopVars>>

DecideSpec == DecideStart /\ [][DecideNext]_vars

\* The review synthesis on its own.
SynthStart == StoreIdle /\ EngineIdle /\ DecidedIdle /\ SynthInit /\ LoopIdle

SynthNext == Synthesize /\ UNCHANGED <<storeVars, engineVars, loopVars>>

SynthSpec == SynthStart /\ [][SynthNext]_vars

\* PersistentREPL.execute and the interpreter process on their own.
PipeStart == StoreIdle /\ EngineIdle /\ DecidedIdle /\ PipeInit /\ LoopIdle

PipeNext ==
    \/ Execute /\ UNCHANGED <<storeVars, engineVars, loopVars>>
    \/ InterpreterReads /\ UNCHANGED <<storeVars, engineVars, loopVars>>
    \/ InterpreterPrints /\ UNCHANGED <<storeVars, engineVars, loopVars>>
    \/ OnData /\ UNCHANGED <<storeVars, engineVars, loopVars>>
    \/ OnTimer /\ UNCHANGED <<storeVars, engineVars, loopVars>>
    \/ ProcessExits /\ UNCHANGED <<storeVars, engineVars, loopVars>>

PipeSpec == PipeStart /\ [][PipeNext]_vars

\* The interpreter's main loop on its own.
ReplStart == StoreIdle /\ EngineIdle /\ DecidedIdle /\ ReplInit /\ LoopIdle

ReplNext == (\E code \in ReplCodes : ReplExec(code)) /\ UNCHANGED <<storeVars, engineVars, loopVars>>

ReplSpec == ReplStart /\ [][ReplNext]_vars

\* scanReviewFindings on its own.
ScanStart == StoreIdle /\ EngineIdle /\ DecidedIdle /\ ScanInit /\ LoopIdle

ScanNext == Scan /\ UNCHANGED <<storeVars, engineVars, loopVars>>

ScanSpec == ScanStart /\ [][ScanNext]_vars

\* splitNode on its own.
SplitStart == StoreIdle /\ EngineIdle /\ DecidedIdle /\ SplitInit /\ LoopIdle

SplitNext == Split /\ UNCHANGED <<storeVars, engineVars, loopVars>>

SplitSpec == SplitStart /\ [][SplitNext]_vars

\* One interactive run tree with its loops, beside an idle store.
RunStart == StoreIdle /\ RunInit /\ DecideIdle

RunNext ==
    \/ (\E e \in 1..Len(loops) : Setup(e)) /\ UNCHANGED <<storeVars, decideVars>>
    \/ (\E e \in 1..Len(loops) : IterationTop(e)) /\ UNCHANGED <<storeVars, decideVars>>
    \/ (\E e \in 1..Len(loops) : RootModelSettles(e)) /\ UNCHANGED <<storeVars, decideVars>>
    \/ (\E e \in 1..Len(loops) : ExecuteSettlesOn(e, TreePrograms)) /\ UNCHANGED <<storeVars, decideVars>>
    \/ (\E e \in 1..Len(loops) : FallbackSettles(e)) /\ UNCHANGED <<storeVars, decideVars>>
    \/ Abort /\ UNCHANGED <<storeVars, decideVars>>
    \/ (\E e \in 1..Len(loops) : RunLlmQuery(e)) /\ UNCHANGED <<storeVars, decideVars>>
    \/ (\E e \in 1..Len(loops) : RunRlmQuery(e)) /\ UNCHANGED <<storeVars, decideVars>>
    \/ (\E c \in 1..Len(calls) : SubLLMSettles(c)) /\ UNCHANGED <<storeVars, decideVars, loopVars>>
    \/ (\E c \in 1..Len(calls) : LimitErrorCaught(c)) /\ UNCHANGED <<storeVars, decideVars, loopVars>>
    \/ (\E c \in 1..Len(calls) : ChildSettles(c)) /\ UNCHANGED <<storeVars, decideVars, loopVars>>

RunSpec == RunStart /\ [][RunNext]_vars

\* One engine's run() alone.
LoopStart == StoreIdle /\ LoopInit /\ DecideIdle

LoopNext ==
    \/ Setup(1) /\ UNCHANGED <<storeVars, decideVars>>
    \/ IterationTop(1) /\ UNCHANGED <<storeVars, decideVars>>
    \/ RootModelSettles(1) /\ UNCHANGED <<storeVars, decideVars>>
    \/ ExecuteSettles(1) /\ UNCHANGED <<storeVars, decideVars>>
    \/ FallbackSettles(1) /\ UNCHANGED <<storeVars, decideVars>>
    \/ Abort /\ UNCHANGED <<storeVars, decideVars>>

LoopSpec == LoopStart /\ [][LoopNext]_vars

\* Model calls and executions settle, and run() goes on between them.
LoopFairSpec == LoopSpec /\ WF_vars(LoopNext)

(***************************************************************************)
(* Properties of the store.                                                *)
(***************************************************************************)
latestNodes == getLatestNodes(nodesLog)
latestNodesAfter == getLatestNodes(nodesLog')
statusOf(nodes, id) == FindNode(nodes, id).status
hasResult(id) == HasEntry(resultsLog, id)
newEvents == SubSeq(queueLog', Len(queueLog) + 1, Len(queueLog'))
eventCount(events, name) == Len(SelectSeq(events, LAMBDA e : e.event = name))
splitNodes == {i \in 1..Len(latestNodes) : latestNodes[i].decision = "split"}
childStatuses(parent) ==
    [i \in 1..Len(parent.child_ids) |-> statusOf(latestNodes, parent.child_ids[i])]
allChildrenTerminal(parent) ==
    \A i \in 1..Len(parent.child_ids) :
        /\ HasNode(latestNodes, parent.child_ids[i])
        /\ isTerminalNodeStatus(statusOf(latestNodes, parent.child_ids[i]))
failedChildCount(parent) ==
    Len(SelectSeq(childStatuses(parent), LAMBDA st : st = "failed" \/ st = "cancelled"))

\* C1: after cancelRun then resumeRun every cancelled node without a Result is
\* queued again, and when no node execution throws a runUntil over more steps
\* than the tree has nodes leaves every node terminal and the run completed.
C1_ResumeRunsToCompletion ==
    [][ /\ (ResumeRun /\ run.status = "cancelled") =>
              \A i \in 1..Len(latestNodes) :
                  (latestNodes[i].status = "cancelled" /\ ~hasResult(latestNodes[i].node_id))
                      => statusOf(latestNodesAfter, latestNodes[i].node_id) = "queued"
        /\ (RunUntil(RunUntilNodes) /\ run.status = "running" /\ resumes >= 1 /\ faulty = {}) =>
              /\ run'.status = "completed"
              /\ \A i \in 1..Len(latestNodesAfter) :
                     isTerminalNodeStatus(latestNodesAfter[i].status) ]_vars

\* C2: whenever the last operation returned, a split node has a Result if and
\* only if every child is terminal and every child has a Result.
C2_ParentResultIffChildrenDone ==
    lastError = "none" =>
        \A k \in splitNodes :
            hasResult(latestNodes[k].node_id)
                <=> /\ allChildrenTerminal(latestNodes[k])
                    /\ \A i \in 1..Len(latestNodes[k].child_ids) :
                           hasResult(latestNodes[k].child_ids[i])

\* The aggregated parents whose children are as they were when the parent
\* Result was written: the parent is terminal, so it was not queued again.
aggregatedParents ==
    {k \in splitNodes : /\ hasResult(latestNodes[k].node_id)
                        /\ latestNodes[k].status \in {"completed", "failed"}
                        /\ allChildrenTerminal(latestNodes[k])}
resultStatus(k) == LatestEntry(resultsLog, latestNodes[k].node_id).status

\* C3: an aggregated parent Result is partial if and only if some but not all
\* children failed or were cancelled; it is completed when no child failed and
\* failed only when every child failed.
C3_PartialIffMixed ==
    \A k \in aggregatedParents :
        LET failed == failedChildCount(latestNodes[k])
            count == Len(latestNodes[k].child_ids)
        IN /\ resultStatus(k) = "partial" <=> (0 < failed /\ failed < count)
           /\ failed = 0 => resultStatus(k) = "completed"
           /\ resultStatus(k) = "failed" => failed = count

\* C3, as the code has it: the parent Result is partial if and only if at least
\* one child failed or was cancelled (all of them included), completed otherwise
\* and never failed; it is the parent node that is failed when every child
\* failed, and completed otherwise.
C3_PartialIffAnyFailed ==
    \A k \in aggregatedParents :
        LET failed == failedChildCount(latestNodes[k])
            count == Len(latestNodes[k].child_ids)
        IN /\ resultStatus(k) = "partial" <=> failed > 0
           /\ resultStatus(k) = "completed" <=> failed = 0
           /\ resultStatus(k) # "failed"
           /\ latestNodes[k].status = "failed" <=> failed = count

C3_Witness ==
    \E k, m \in aggregatedParents :
        /\ failedChildCount(latestNodes[k]) = Len(latestNodes[k].child_ids)
        /\ resultStatus(k) = "partial"
        /\ latestNodes[k].status = "failed"
        /\ 0 < failedChildCount(latestNodes[m])
        /\ failedChildCount(latestNodes[m]) < Len(latestNodes[m].child_ids)
        /\ latestNodes[m].status = "completed"

\* C4: a run whose status is completed, failed or cancelled has a root node
\* with that same status.
C4_RunStatusIsRootStatus ==
    run.status \in TerminalStatuses =>
        statusOf(latestNodes, run.root_node_id) = run.status

snapshotsOf(id) == SelectSeq(nodesLog, LAMBDA n : n.node_id = id)
runningTransitions(snaps) ==
    Cardinality({i \in 1..Len(snaps) :
                    snaps[i].status = "running" /\ (i = 1 \/ snaps[i - 1].status # "running")})

\* C5: the node log holds at most one transition of a node into running, and
\* no snapshot after a terminal one gives the node a non-terminal status.
C5_OneRunningTransition ==
    \A k \in 1..Len(latestNodes) :
        LET snaps == snapshotsOf(latestNodes[k].node_id)
        IN /\ runningTransitions(snaps) <= 1
           /\ \A i, j \in 1..Len(snaps) :
                  (i < j /\ isTerminalNodeStatus(snaps[i].status))
                      => isTerminalNodeStatus(snaps[j].status)

\* C6: cancelRun on a completed, failed or cancelled run and resumeRun on a
\* completed run raise an error and leave run.json and the three logs unchanged.
C6_InvalidTransitionsRejected ==
    [][ ((CancelRun /\ run.status \in TerminalStatuses)
           \/ (ResumeRun /\ run.status = "completed"))
        => (lastError' # "none" /\ UNCHANGED disk) ]_vars

\* C7: cancelRun on a running run returns with the run cancelled, no node
\* queued or running (each of them now cancelled), completed and failed nodes
\* as they were, and exactly one run_cancelled event appended.
C7_CancelTerminalizes ==
    [][ (CancelRun /\ run.status = "running") =>
          /\ lastError' = "none"
          /\ run'.status = "cancelled"
          /\ Len(latestNodesAfter) = Len(latestNodes)
          /\ \A i \in 1..Len(latestNodesAfter) :
                 latestNodesAfter[i].status \notin {"queued", "running"}
          /\ \A i \in 1..Len(latestNodes) :
                 LET before == latestNodes[i]
                     after == FindNode(latestNodesAfter, before.node_id)
                 IN IF before.status \in {"queued", "running"}
                    THEN after = [before EXCEPT !.status = "cancelled"]
                    ELSE after = before
          /\ resultsLog' = resultsLog
          /\ queueLog' = Append(queueLog, QueueEvent("run_cancelled", run.root_node_id)) ]_vars

C7_Witness ==
    /\ cancels = 1
    /\ resumes = 0
    /\ run.status = "cancelled"
    /\ queueLog[Len(queueLog)].event = "run_cancelled"
    /\ \E i, j, k \in 1..Len(latestNodes) :
          /\ latestNodes[i].status = "completed"
          /\ latestNodes[j].status = "failed"
          /\ latestNodes[k].status = "cancelled"
          /\ latestNodes[k].decision = "split"

requeueable == {i \in 1..Len(latestNodes) :
                   latestNodes[i].status = "cancelled" /\ ~hasResult(latestNodes[i].node_id)}

\* C8: resumeRun on a running run changes nothing; on a cancelled or failed run
\* it sets the run running, makes queued exactly the cancelled nodes without a
\* Result, and appends one node_requeued event for each of them and then one
\* run_resumed event.
C8_ResumeRequeues ==
    [][ ResumeRun =>
          /\ run.status = "running" => UNCHANGED disk
          /\ run.status \in {"cancelled", "failed"} =>
                /\ lastError' = "none"
                /\ run'.status = "running"
                /\ Len(latestNodesAfter) = Len(latestNodes)
                /\ \A i \in 1..Len(latestNodes) :
                       LET before == latestNodes[i]
                           after == FindNode(latestNodesAfter, before.node_id)
                       IN IF i \in requeueable
                          THEN after = [before EXCEPT !.status = "queued"]
                          ELSE after = before
                /\ resultsLog' = resultsLog
                /\ Len(queueLog') = Len(queueLog) + Cardinality(requeueable) + 1
                /\ SubSeq(queueLog', 1, Len(queueLog)) = queueLog
                /\ queueLog'[Len(queueLog')] = QueueEvent("run_resumed", run.root_node_id)
                /\ \A i \in requeueable :
                       Cardinality({e \in 1..(Len(newEvents) - 1) :
                           newEvents[e] = QueueEvent("node_requeued", latestNodes[i].node_id)}) = 1 ]_vars

C8_Witness ==
    /\ resumes = 1
    /\ run.status = "running"
    /\ queueLog[Len(queueLog)].event = "run_resumed"
    /\ eventCount(queueLog, "node_requeued") >= 2
    /\ \E i, j \in 1..Len(latestNodes) :
          /\ latestNodes[i].status = "failed"
          /\ latestNodes[j].status = "completed"

(***************************************************************************)
(* Properties of the interactive engine.                                   *)
(***************************************************************************)
runningCalls == {c \in 1..Len(calls) : calls[c].status = "running"}

\* C9: across the run tree, under every interleaving of /llm_query and
\* /rlm_query callbacks, the shared count of sub-LLM calls never exceeds
\* maxLLMCalls: a step that counts a call counts exactly one and starts from a
\* count below the limit.
C9_SharedBudgetRespected ==
    [][ /\ sharedState'.llmCalls <= config.maxLLMCalls
        /\ sharedState'.llmCalls # sharedState.llmCalls =>
              /\ sharedState.llmCalls < config.maxLLMCalls
              /\ sharedState'.llmCalls = sharedState.llmCalls + 1 ]_vars

C9_Witness ==
    /\ sharedState.llmCalls = config.maxLLMCalls
    /\ \E c, d \in runningCalls :
          /\ calls[c].pending = "rejected"
          /\ calls[d].pending = "llm"
          /\ engines[calls[c].engine].depth # engines[calls[d].engine].depth

\* C10: no engine exists at a depth above maxDepth; an rlm_query served at
\* depth >= maxDepth adds no engine and goes through callSubLLM once instead,
\* and one served at depth d < maxDepth adds exactly one engine, of depth d + 1.
C10_DepthBound ==
    [][ /\ \A i \in 1..Len(engines') : engines'[i].depth <= config.maxDepth
        /\ \A e \in 1..Len(engines) :
              RlmQuery(e) =>
                 LET call == calls'[Len(calls')]
                 IN IF engines[e].depth >= config.maxDepth
                    THEN /\ engines' = engines
                         /\ call.child = 0
                         /\ IF sharedState.llmCalls < config.maxLLMCalls
                            THEN /\ call.pending = "llm"
                                 /\ sharedState'.llmCalls = sharedState.llmCalls + 1
                            ELSE /\ call.pending = "rejected"
                                 /\ sharedState'.llmCalls = sharedState.llmCalls
                    ELSE /\ Len(engines') = Len(engines) + 1
                         /\ SubSeq(engines', 1, Len(engines)) = engines
                         /\ engines'[Len(engines')].depth = engines[e].depth + 1
                         /\ call.pending = "child"
                         /\ call.child = Len(engines')
                         /\ sharedState'.llmCalls = sharedState.llmCalls ]_vars

C10_Witness ==
    /\ config.maxDepth >= 1
    /\ \E c, d \in 1..Len(calls) :
          /\ calls[c].type = "rlm_query"
          /\ calls[c].child # 0
          /\ engines[calls[c].child].depth = config.maxDepth
          /\ calls[d].type = "rlm_query"
          /\ calls[d].engine = calls[c].child
          /\ calls[d].child = 0
          /\ calls[d].pending = "llm"

(***************************************************************************)
(* Properties of decideNode.                                               *)
(***************************************************************************)
pastDeadline == decided.now > decided.node.budgets.deadline_epoch_ms
atDepthLimit == decided.node.depth >= decided.run.config.max_depth
outOfLlmCalls == decided.node.budgets.remaining_llm_calls <= 0
outOfTokens == decided.node.budgets.remaining_tokens <= 0
overThreshold ==
    IF decided.run.mode = "review"
    THEN decided.outcome.metrics.fileCount > 12 \/ decided.outcome.metrics.totalBytes > 2000000
    ELSE decided.outcome.metrics.fileCount > 16 \/ decided.outcome.metrics.totalBytes > 3000000

\* C18: decideNode gives the first matching reason in the order
\* deadline_exceeded, max_depth_reached, llm_budget_exhausted,
\* token_budget_exhausted (all leaf), then split with scope_too_large iff the
\* file count or the byte total strictly exceeds the mode's threshold, else
\* leaf with scope_small_enough; split occurs only with scope_too_large.
C18_DecisionOrder ==
    decided.called =>
        /\ decided.outcome.reason =
              (IF pastDeadline THEN "deadline_exceeded"
               ELSE IF atDepthLimit THEN "max_depth_reached"
               ELSE IF outOfLlmCalls THEN "llm_budget_exhausted"
               ELSE IF outOfTokens THEN "token_budget_exhausted"
               ELSE IF overThreshold THEN "scope_too_large"
               ELSE "scope_small_enough")
        /\ decided.outcome.decision =
              (IF decided.outcome.reason = "scope_too_large" THEN "split" ELSE "leaf")

\* Depth limit, LLM budget and token budget all match: the first one is given.
C18_Witness ==
    /\ decided.called
    /\ ~pastDeadline /\ atDepthLimit /\ outOfLlmCalls /\ outOfTokens /\ overThreshold
    /\ decided.outcome.reason = "max_depth_reached"

(***************************************************************************)
(* Properties of the scheduler.                                            *)
(***************************************************************************)
dequeuedNow == SelectSeq(newEvents, LAMBDA e : e.event = "node_dequeued")
queuedBefore == queuedNodes(latestNodes)

\* C19: the node a step selects is queued; under dfs no queued node is
\* deeper, under bfs and hybrid none is shallower; no queued node of its
\* depth was created earlier; and nothing is selected when nothing is queued.
C19_SelectsByDepthThenAge ==
    [][ /\ Len(queuedBefore) = 0 => Len(dequeuedNow) = 0
        /\ Len(dequeuedNow) > 0 =>
              /\ HasNode(latestNodes, dequeuedNow[1].node_id)
              /\ LET n == FindNode(latestNodes, dequeuedNow[1].node_id)
                 IN /\ n.status = "queued"
                    /\ \A i \in 1..Len(queuedBefore) :
                          /\ run.config.scheduler = "dfs" => queuedBefore[i].depth <= n.depth
                          /\ run.config.scheduler # "dfs" => queuedBefore[i].depth >= n.depth
                          /\ queuedBefore[i].depth = n.depth =>
                                n.created_at <= queuedBefore[i].created_at ]_vars

\* Under dfs a node of depth 2 has been taken while a node of depth 1 waits.
C19_Witness ==
    /\ run.config.scheduler = "dfs"
    /\ resumes = 0
    /\ \E e \in Range(queueLog) :
          /\ e.event = "node_dequeued"
          /\ FindNode(latestNodes, e.node_id).depth = 2
    /\ \E i \in 1..Len(latestNodes) :
          latestNodes[i].depth = 1 /\ latestNodes[i].status = "queued"

(***************************************************************************)
(* Properties of splitNode.                                                *)
(***************************************************************************)
\* The files a scope holds, and the entries splitNode lists for it.
scopeFiles(paths) == Range(collectScopeFiles(paths, DecideMaxFiles).sampledFiles)
splitParents ==
    {i \in 1..Len(latestNodes) :
        latestNodes[i].decision = "split" /\ Len(latestNodes[i].child_ids) > 0}
childrenOf(parent) ==
    [k \in 1..Len(parent.child_ids) |-> FindNode(latestNodes, parent.child_ids[k])]

\* C20: the children of a split node have pairwise disjoint file scopes, and
\* every child scope lies within what the parent's scope enumerates.
C20_SplitSafety ==
    \A p \in splitParents :
        LET parent == latestNodes[p]
            children == childrenOf(parent)
        IN /\ \A i, j \in 1..Len(children) :
                 i # j => scopeFiles(children[i].paths) \cap scopeFiles(children[j].paths) = {}
           /\ \A i \in 1..Len(children) :
                 /\ Range(children[i].paths) \subseteq Range(splitEntries(parent.paths))
                 /\ scopeFiles(children[i].paths) \subseteq scopeFiles(parent.paths)

\* One node was split by directory and another into several file groups.
C20_Witness ==
    /\ \E p \in splitParents :
          /\ Len(latestNodes[p].child_ids) >= 2
          /\ \A k \in 1..Len(latestNodes[p].child_ids) :
                childrenOf(latestNodes[p])[k].scope_type = "dir"
    /\ \E p \in splitParents :
          /\ Len(latestNodes[p].child_ids) >= 2
          /\ \A k \in 1..Len(latestNodes[p].child_ids) :
                /\ childrenOf(latestNodes[p])[k].scope_type = "file_group"
                /\ scopeFiles(childrenOf(latestNodes[p])[k].paths) # {}

(***************************************************************************)
(* Properties of RLMEngine.run.                                            *)
(***************************************************************************)
loopIds == 1..Len(loops)
settled(e) == engines[e].status # "running"
loopEnded(e) == loops[e].iteration > config.maxIterations

iterationsBounded ==
    \A e \in loopIds :
        /\ loops[e].rootCalls <= config.maxIterations
        /\ loops[e].fallbackCalls = (IF loopEnded(e) THEN 1 ELSE 0)
        /\ loopEnded(e) => loops[e].rootCalls = config.maxIterations
        /\ engines[e].status = "returned" /\ loops[e].outcome # "final" =>
              /\ loopEnded(e)
              /\ loops[e].outcome = "fallback"
              /\ loops[e].answer = "fallback text"

\* C11: run() calls the root model for at most maxIterations iterations; when
\* the loop ends without a final answer it makes exactly one fallback call
\* and returns its text; and run() settles.
C11_BoundedIterationsThenFallback ==
    /\ []iterationsBounded
    /\ <>(\A e \in loopIds : settled(e))

\* run() returned the fallback text after maxIterations iterations with code.
C11_Witness ==
    /\ engines[1].status = "returned"
    /\ loops[1].outcome = "fallback"
    /\ loops[1].rootCalls = config.maxIterations
    /\ config.maxIterations >= 2
    /\ loops[1].fallbackCalls = 1

reportsFinal(result) ==
    result.finalAnswer # Null \/ result.finalVar # Null \/ result.submitted # Null

\* C12: once an execution reports a non-null final answer (FINAL, SUBMIT, or
\* FINAL_VAR of a variable that is present) run() has returned that answer
\* and does nothing more; without one (FINAL_VAR of an absent variable) no
\* final answer is returned.
C12_FinalAnswerReturns ==
    \A e \in loopIds :
        /\ reportsFinal(loops[e].result) =>
              /\ engines[e].status = "returned"
              /\ loops[e].pc = "done"
              /\ loops[e].outcome = "final"
              /\ loops[e].answer \in {loops[e].result.finalAnswer, loops[e].result.finalVar}
        /\ loops[e].outcome = "final" => reportsFinal(loops[e].result)

C14_NoIterationAfterAbort ==
    [][signal =>
         /\ signal'
         /\ \A e \in loopIds :
               /\ loops'[e].rootCalls = loops[e].rootCalls
               /\ loops[e].pc = "top" => loops'[e].pc \notin {"model", "exec"}
               /\ /\ isAt(e, "top")
                  /\ loops'[e] # loops[e]
                  /\ loopContinues(loops[e].iteration + 1, config.maxIterations)
                  => /\ loops'[e].outcome = "Aborted"
                     /\ loops'[e].pc = "done"
                     /\ engines'[e].status = "threw"]_vars

C14_Witness ==
    /\ signal
    /\ Len(loops) = 2
    /\ engines[2].depth = 1
    /\ loops[2].outcome = "Aborted"
    /\ loops[1].outcome = "Aborted"
    /\ loops[1].rootCalls = 1

released(loop) ==
    /\ loop.repl \in {"none", "dead"}
    /\ loop.server \in {"none", "closed"}
    /\ loop.tempDir = "removed"

C16_FailedSubCallLeavesRunAlone ==
    [][/\ \A c \in 1..Len(calls) :
             calls[c].status = "running" /\ calls'[c].status = "error" =>
                /\ loops' = loops
                /\ engines' = engines
                /\ InSeq(completedCalls', c)
                /\ calls[c].pending = "rejected" =>
                      sharedState'.llmCalls = sharedState.llmCalls
       /\ \A c \in 1..Len(calls') :
             c > Len(calls) /\ calls'[c].pending = "rejected" =>
                /\ sharedState.llmCalls = config.maxLLMCalls
                /\ sharedState'.llmCalls = sharedState.llmCalls]_vars

C16_Witness ==
    /\ Len(calls) = 2
    /\ \A c \in 1..2 : calls[c].engine = 1 /\ calls[c].status = "error"
    /\ sharedState.llmCalls = config.maxLLMCalls
    /\ engines[1].status = "returned"
    /\ loops[1].outcome = "final"
    /\ loops[1].iteration = 2

occurrences(s, x) == Cardinality({i \in 1..Len(s) : s[i] = x})

movedOnce ==
    \A c \in 1..Len(calls) :
        /\ occurrences(activeCalls, c) = IF calls[c].status = "running" THEN 1 ELSE 0
        /\ occurrences(completedCalls, c) = IF calls[c].status = "running" THEN 0 ELSE 1

\* C17: a sub-call record is in activeCalls, once, from its start until it
\* finishes, and in completedCalls, once, from then on, never in both; and
\* once the root run() has settled activeCalls is empty.
C17_ActiveUntilCompletedOnce ==
    /\ movedOnce
    /\ engines[1].status # "running" => activeCalls = <<>>

(***************************************************************************)
(* Properties of the split: coverage and budgets.                          *)
(***************************************************************************)
holders(children, f) == {i \in 1..Len(children) : f \in scopeFiles(children[i].paths)}

\* C21: when a node is split, every file of its scope, a file that sits next
\* to subdirectories included, lies in the scope of exactly one child.
C21_SplitCoversScope ==
    \A p \in splitParents :
        \A f \in scopeFiles(latestNodes[p].paths) :
            Cardinality(holders(childrenOf(latestNodes[p]), f)) = 1

splitChildren == applied.children
splitK == Len(splitChildren)
floorShare(budget, cost, k) == Max(0, budget - cost) \div k
RECURSIVE SumSeq(_)
SumSeq(s) == IF s = <<>> THEN 0 ELSE Head(s) + SumSeq(Tail(s))

\* C22: a split into k children gives each child floor(max(0, calls - 1) / k)
\* LLM calls and floor(max(0, tokens - 4000) / k) tokens and the parent's
\* deadline; the children's budgets are non-negative and add up to no more
\* than the parent's.
C22_SplitBudgets ==
    applied.op = "splitNode" /\ applied.called =>
        LET parent == applied.node.budgets
        IN /\ splitK > 0
           /\ \A i \in 1..splitK :
                 LET child == splitChildren[i].budgets
                 IN /\ child.remaining_llm_calls =
                          floorShare(parent.remaining_llm_calls, 1, splitK)
                    /\ child.remaining_tokens =
                          floorShare(parent.remaining_tokens, 4000, splitK)
                    /\ child.deadline_epoch_ms = parent.deadline_epoch_ms
                    /\ child.max_depth = parent.max_depth
                    /\ child.remaining_llm_calls >= 0
                    /\ child.remaining_tokens >= 0
           /\ SumSeq([i \in 1..splitK |-> splitChildren[i].budgets.remaining_llm_calls])
                 <= parent.remaining_llm_calls
           /\ SumSeq([i \in 1..splitK |-> splitChildren[i].budgets.remaining_tokens])
                 <= parent.remaining_tokens

\* Three children share 4005 tokens and 5 calls: one token and one call each,
\* with the remainders lost.
C22_Witness ==
    /\ applied.op = "splitNode"
    /\ applied.called
    /\ splitK = 3
    /\ applied.node.budgets.remaining_tokens = 4005
    /\ applied.node.budgets.remaining_llm_calls = 5
    /\ \A i \in 1..3 : /\ splitChildren[i].budgets.remaining_tokens = 1
                       /\ splitChildren[i].budgets.remaining_llm_calls = 1

(***************************************************************************)
(* Properties of the logs and of run.json.                                 *)
(***************************************************************************)
\* C23: no snapshot in the node log has status completed unless the result
\* log holds a Result of that node, for leaves and aggregated parents alike.
C23_CompletedHasResult ==
    \A i \in 1..Len(nodesLog) :
        nodesLog[i].status = "completed" => hasResult(nodesLog[i].node_id)

\* A completed leaf and a completed aggregated parent.
C23_Witness ==
    \E i, j \in 1..Len(latestNodes) :
        /\ latestNodes[i].status = "completed"
        /\ latestNodes[i].decision = "leaf"
        /\ hasResult(latestNodes[i].node_id)
        /\ latestNodes[j].status = "completed"
        /\ latestNodes[j].decision = "split"
        /\ hasResult(latestNodes[j].node_id)

(***************************************************************************)
(* Properties of the review synthesis.                                     *)
(***************************************************************************)
synthesized == applied.op = "reviewSynthesis" /\ applied.called
clustersHolding(f) ==
    {c \in 1..Len(applied.out.clusters) : applied.out.clusters[c].key = clusterKey(f)}

\* C28: raw_count >= deduped_count >= cluster_count, every deduped finding
\* belongs to exactly one cluster, and the cluster counts add up to
\* deduped_count.
C28_DedupeLaw ==
    synthesized =>
        /\ applied.out.raw_count >= applied.out.deduped_count
        /\ applied.out.deduped_count >= applied.out.cluster_count
        /\ applied.out.raw_count = Len(applied.raw)
        /\ \A i \in 1..Len(applied.out.findings) :
              /\ Cardinality(clustersHolding(applied.out.findings[i])) = 1
              /\ \E c \in clustersHolding(applied.out.findings[i]) :
                    InSeq(applied.out.clusters[c].finding_ids, applied.out.findings[i].id)
        /\ \A c \in 1..Len(applied.out.clusters) :
              /\ applied.out.clusters[c].count = Len(applied.out.clusters[c].finding_ids)
              /\ applied.out.clusters[c].count =
                    Cardinality({i \in 1..Len(applied.out.findings) :
                                    clusterKey(applied.out.findings[i]) =
                                       applied.out.clusters[c].key})
        /\ SumSeq([c \in 1..Len(applied.out.clusters) |-> applied.out.clusters[c].count])
              = applied.out.deduped_count

\* Three raw findings, two deduped, one cluster.
C28_Witness ==
    /\ synthesized
    /\ applied.out.raw_count = 3
    /\ applied.out.deduped_count = 2
    /\ applied.out.cluster_count = 1
    /\ applied.out.clusters[1].count = 2

sameKeyRaw(g) ==
    {i \in 1..Len(applied.raw) : dedupeKey(applied.raw[i]) = dedupeKey(g)}

rankedInOrder ==
    \A i, j \in 1..Len(applied.out.findings) :
        i < j => ~rankedBefore(applied.out.findings[j], applied.out.findings[i])

\* C30: of the findings that share a dedupe key the one kept has the highest
\* severity among them and, among those of that severity, the highest
\* confidence, in whatever order they are met; the deduped list is in
\* descending order of severity rank, then of confidence.
C30_KeepsHighestSeverity ==
    synthesized =>
        /\ \A k \in 1..Len(applied.out.findings) :
              LET kept == applied.out.findings[k]
              IN \A i \in sameKeyRaw(kept) :
                    LET f == applied.raw[i]
                    IN /\ severityRank(kept.severity) >= severityRank(f.severity)
                       /\ severityRank(kept.severity) = severityRank(f.severity) =>
                             kept.confidence >= f.confidence
        /\ rankedInOrder

(***************************************************************************)
(* Properties of run.json: progress, checkpoint and output_index.          *)
(***************************************************************************)
\* C24: after every operation the persisted counters nodes_completed,
\* nodes_failed and active_nodes are the numbers of nodes whose latest
\* snapshot is completed, failed and running.
C24_ProgressCountsLatest ==
    /\ run.progress.nodes_completed = countStatus(latestNodes, "completed")
    /\ run.progress.nodes_failed = countStatus(latestNodes, "failed")
    /\ run.progress.active_nodes = countStatus(latestNodes, "running")

distinctNodeIds == {nodesLog[i].node_id : i \in 1..Len(nodesLog)}
maxDepthInLog ==
    CHOOSE d \in {nodesLog[i].depth : i \in 1..Len(nodesLog)} :
        \A i \in 1..Len(nodesLog) : nodesLog[i].depth <= d
totalsMatch ==
    /\ run.progress.nodes_total = Cardinality(distinctNodeIds)
    /\ run.progress.max_depth_seen = maxDepthInLog

\* C25: before and after every operation nodes_total is the number of
\* distinct node ids in the node log and max_depth_seen the largest depth in
\* it, and no operation decreases either.
C25_TotalsMatchAndGrow ==
    [][/\ totalsMatch
       /\ totalsMatch'
       /\ run'.progress.nodes_total >= run.progress.nodes_total
       /\ run'.progress.max_depth_seen >= run.progress.max_depth_seen]_vars

\* Seven nodes down to depth 2, counted after a synthesis and a cancel.
C25_Witness ==
    /\ run.progress.nodes_total = 7
    /\ run.progress.max_depth_seen = 2
    /\ Cardinality(distinctNodeIds) = 7
    /\ synths = 1
    /\ cancels = 1

\* C26: after every operation, startRun included, last_event_offset is the
\* number of events in the queue log.
C26_OffsetIsEventCount ==
    run.checkpoint.last_event_offset = Len(queueLog)

noDuplicates(index) ==
    \A i, j \in 1..Len(index) :
        i # j => ~(index[i].kind = index[j].kind /\ index[i].path = index[j].path)

\* C27: output_index never holds two entries with the same (kind, path),
\* after executeStep as after synthesizeRun, and every artifact a synthesis
\* returns is in the index afterwards.
C27_IndexDeduped ==
    [][/\ noDuplicates(run'.output_index)
       /\ synths' # synths =>
             \E target \in SynthTargets :
                LET out == synthesizeRun(Store, artifactFiles, target)
                IN /\ run' = out.store.run
                   /\ \A i \in 1..Len(out.synthesized) :
                         InSeq(run'.output_index, out.synthesized[i])]_vars

\* C29: a synthesizeRun applied again with the same target, nothing else in
\* between, writes the same artifact contents and the same output_index.
C29_SynthesisIdempotent ==
    [][synths' # synths =>
          \E target \in SynthTargets :
             LET once == synthesizeRun(Store, artifactFiles, target)
                 twice == synthesizeRun(once.store, once.files, target)
             IN /\ run' = once.store.run
                /\ artifactFiles' = once.files
                /\ twice.files = once.files
                /\ twice.store = once.store
                /\ twice.synthesized = once.synthesized]_vars

\* A review synthesis over findings that were deduped, with the six review
\* artifacts in the index.
C29_Witness ==
    /\ synths = 1
    /\ artifactFiles.review.written
    /\ artifactFiles.review.synthesis.raw_count > artifactFiles.review.synthesis.deduped_count
    /\ artifactFiles.review.synthesis.cluster_count >= 2
    /\ Len(run.output_index) = 6

(***************************************************************************)
(* Properties of executeStep and runUntil: failures, termination, order.   *)
(***************************************************************************)
newSnapshots == SubSeq(nodesLog', Len(nodesLog) + 1, Len(nodesLog'))
startedThrowing ==
    {k \in 1..Len(newSnapshots) :
        newSnapshots[k].status = "running" /\ nodeExecutionThrows(newSnapshots[k])}
nextSnapshot(k) ==
    LET later == {m \in (k + 1)..Len(newSnapshots) :
                    newSnapshots[m].node_id = newSnapshots[k].node_id}
    IN IF later = {} THEN newSnapshots[k]
       ELSE newSnapshots[CHOOSE m \in later : \A n \in later : m <= n]
throwingStarts ==
    {i \in 1..Len(newEvents) :
        /\ newEvents[i].event = "node_started"
        /\ nodeExecutionThrows(LatestEntry(nodesLog', newEvents[i].node_id))}

\* C31: a step in which a node execution throws still returns; the snapshot
\* that follows the node's running snapshot is failed with errors[0] =
\* {node_execution_error, not retryable} and a node_failed event follows its
\* node_started; queued nodes that remain are processed by the same step
\* until maxNodes is used up; and the run is failed after a step only if the
\* root node is failed.
C31_NodeFailureCaptured ==
    [][/\ run.status = "running" /\ queueLog' # queueLog /\ cancels' = cancels
          /\ resumes' = resumes /\ synths' = synths
          => /\ lastError' = "none"
             /\ \A k \in startedThrowing :
                   /\ nextSnapshot(k).status = "failed"
                   /\ nextSnapshot(k).errors = << [code |-> "node_execution_error",
                                                   retryable |-> FALSE] >>
             /\ \A i \in throwingStarts :
                   \E j \in (i + 1)..Len(newEvents) :
                      /\ newEvents[j].event = "node_failed"
                      /\ newEvents[j].node_id = newEvents[i].node_id
             /\ run'.status = "failed" => statusOf(latestNodesAfter, RootNodeId) = "failed"
       /\ run.status = "running" =>
             LET out == executeStep(Store, MaxStepNodes)
             IN \/ out.processed_nodes = MaxStepNodes
                \/ queuedNodes(getLatestNodes(out.store.nodes)) = <<>>]_vars

\* A node failed, a node was started after that failure and completed, and
\* the run completed.
C31_Witness ==
    /\ run.status = "completed"
    /\ \E i, j \in 1..Len(queueLog) :
          /\ i < j
          /\ queueLog[i].event = "node_failed"
          /\ queueLog[j].event = "node_started"
          /\ statusOf(latestNodes, queueLog[i].node_id) = "failed"
          /\ statusOf(latestNodes, queueLog[j].node_id) = "completed"
          /\ FindNode(latestNodes, queueLog[i].node_id).errors
                = << [code |-> "node_execution_error", retryable |-> FALSE] >>

runTerminal == run.status \in {"completed", "failed", "cancelled"}
idleStore(s) ==
    LET step == executeStep(s, 1)
    IN step.processed_nodes = 0 /\ step.aggregated_nodes = 0

\* C32: in a run that is never cancelled and is stepped again and again,
\* every node is started at most once, run.status is eventually terminal, a
\* runUntil with a large maxNodes leaves the run running only if it is idle,
\* and when no node execution throws the terminal status is completed with
\* every node completed.
C32_SteppedRunTerminates ==
    /\ [](eventCount(queueLog, "node_started") <= Len(latestNodes))
    /\ <>runTerminal
    /\ [](run.status = "running" =>
             LET out == runUntil(Store, RunUntilNodes)
             IN out.run.status = "running" => idleStore(out))
    /\ [](runTerminal /\ faulty = {} =>
             /\ run.status = "completed"
             /\ \A i \in 1..Len(latestNodes) : latestNodes[i].status = "completed")

\* The whole tree of seven nodes was processed without a failure.
C32_Witness ==
    /\ run.status = "completed"
    /\ faulty = {}
    /\ Len(latestNodes) = 7
    /\ eventCount(queueLog, "node_started") = 7
    /\ eventCount(queueLog, "node_aggregated") = 3
    /\ \A i \in 1..Len(latestNodes) : latestNodes[i].status = "completed"

(***************************************************************************)
(* Properties of scanReviewFindings.                                       *)
(***************************************************************************)
scanned == applied.op = "scanReviewFindings" /\ applied.called
inspectedFiles ==
    {applied.files[i] : i \in 1..Min(MaxFilesToInspect, Len(applied.files))}
onePerFilePattern ==
    \A i, j \in 1..Len(applied.findings) :
        i # j => \/ applied.findings[i].evidence[1].path # applied.findings[j].evidence[1].path
                 \/ applied.findings[i].evidence[1].quote # applied.findings[j].evidence[1].quote

\* C38: a review scan returns at most 25 findings, all of them from the first
\* 40 files of the list, and at most one for each (file, pattern).
C38_FindingCaps ==
    scanned =>
       /\ Len(applied.findings) <= MaxFindings
       /\ \A k \in 1..Len(applied.findings) :
             applied.findings[k].evidence[1].path \in inspectedFiles
       /\ onePerFilePattern

(***************************************************************************)
(* Properties of the interpreter's namespace.                              *)
(***************************************************************************)
touched(code) == {ranStatements(code)[i].name : i \in 1..Len(ranStatements(code))}

\* C33: every execution starts with each injected helper bound to its
\* original value, whatever the code blocks before it rebound or deleted;
\* a user variable starts an execution with the value the last execution left
\* and keeps it unless the code assigns or deletes it.
C33_HelpersReboundVariablesKept ==
    [][applied'.op = "exec" /\ applied'.executions > applied.executions =>
          /\ \A h \in Helpers : applied'.atStart[h] = "original"
          /\ \A v \in UserNames :
                /\ applied'.atStart[v] = applied.namespace[v]
                /\ v \notin touched(applied'.code) => applied'.namespace[v] = applied.namespace[v]]_vars

\* The third execution, after code that rebound context and defined x, and
\* code that deleted FINAL: x still holds the value and the helpers are back.
C33_Witness ==
    /\ applied.op = "exec"
    /\ applied.executions = 3
    /\ applied.code = << [op |-> "del", name |-> "FINAL", value |-> "unbound"],
                         [op |-> "set", name |-> "context", value |-> "user"] >>
    /\ applied.atStart["x"] = "a"
    /\ applied.namespace["x"] = "a"
    /\ applied.namespace["FINAL"] = "original"

(***************************************************************************)
(* Properties of PersistentREPL.execute.                                   *)
(***************************************************************************)
resolvesOf(call) ==
    {i \in 1..Len(applied.resolved) : applied.resolved[i].call = call}

\* C34: every execute call resolves at most once, and once unless it is still
\* pending, with how in {result, timeout, process_exit}; and a call that
\* resolves with a result block resolves with the block of its own code.
C34_ResolvesOnceWithOwnResult ==
    applied.op = "execute" =>
       /\ \A call \in 1..applied.calls :
             /\ Cardinality(resolvesOf(call)) <= 1
             /\ call # applied.listener => Cardinality(resolvesOf(call)) = 1
       /\ \A i \in 1..Len(applied.resolved) :
             /\ applied.resolved[i].how \in {"result", "timeout", "process_exit"}
             /\ applied.resolved[i].how = "result" =>
                   applied.resolved[i].block = applied.resolved[i].call

(***************************************************************************)
(* Properties of the node tree and of the queue log.                       *)
(***************************************************************************)
earlierSnapshots(k) == {j \in 1..(k - 1) : nodesLog[j].node_id = nodesLog[k].node_id}
splitSnapshots ==
    {k \in 1..Len(nodesLog) :
        /\ nodesLog[k].decision = "split"
        /\ \E j \in earlierSnapshots(k) :
              /\ \A m \in earlierSnapshots(k) : m <= j
              /\ nodesLog[j].decision # "split"}

C36_DepthBounded ==
    /\ \A k \in 1..Len(nodesLog) :
          /\ nodesLog[k].depth <= run.config.max_depth
          /\ nodesLog[k].node_id # RootNodeId =>
                /\ HasNode(latestNodes, nodesLog[k].parent_id)
                /\ nodesLog[k].depth = FindNode(latestNodes, nodesLog[k].parent_id).depth + 1
    /\ run.progress.max_depth_seen <= run.config.max_depth
    /\ run.config.max_depth = 0 => Len(latestNodes) = 1

\* max_depth 1 stopped a scope over the threshold from splitting: the run
\* completed with node a a leaf at depth 1.
C36_Witness ==
    /\ run.config.max_depth = 1
    /\ run.status = "completed"
    /\ run.progress.max_depth_seen = 1
    /\ \E i \in 1..Len(latestNodes) :
          /\ latestNodes[i].depth = 1
          /\ latestNodes[i].decision = "leaf"
          /\ latestNodes[i].decision_reason = "max_depth_reached"
          /\ latestNodes[i].paths = <<D(1)>>

\* The events of the queue log that belong to one node's history (run_cancelled
\* and run_resumed carry the root's id and belong to the run).
NodeEvents == {"node_enqueued", "node_requeued", "node_dequeued", "node_started",
               "node_completed", "node_failed", "node_split", "node_aggregated"}
TerminalEvents == {"node_completed", "node_failed", "node_aggregated"}

historyBefore(k, id) ==
    {j \in 1..(k - 1) : queueLog[j].node_id = id /\ queueLog[j].event \in NodeEvents}

\* The event of node id that precedes position k in its history.
prevEvent(k, id) ==
    IF historyBefore(k, id) = {} THEN "none"
    ELSE queueLog[CHOOSE j \in historyBefore(k, id) :
                     \A m \in historyBefore(k, id) : m <= j].event

eventOrdered(k) ==
    LET e == queueLog[k] IN
    CASE e.event = "node_started" -> prevEvent(k, e.node_id) = "node_dequeued"
      [] e.event = "node_dequeued" -> prevEvent(k, e.node_id) \in {"node_enqueued", "node_requeued"}
      [] e.event \in {"node_completed", "node_failed", "node_split"} ->
            prevEvent(k, e.node_id) = "node_started"
      [] e.event = "node_enqueued" /\ e.node_id # RootNodeId ->
            /\ HasNode(latestNodes, e.node_id)
            /\ prevEvent(k, FindNode(latestNodes, e.node_id).parent_id) = "node_split"
      [] e.event = "node_aggregated" ->
            /\ HasNode(latestNodes, e.node_id)
            /\ \A c \in 1..Len(FindNode(latestNodes, e.node_id).child_ids) :
                  prevEvent(k, FindNode(latestNodes, e.node_id).child_ids[c]) \in TerminalEvents
      [] OTHER -> TRUE

\* C37: in the queue log a node_started is immediately preceded in its
\* node's history by node_dequeued, which follows node_enqueued or
\* node_requeued; node_completed, node_failed and node_split follow the
\* node's node_started; a child's node_enqueued follows its parent's
\* node_split; a parent's node_aggregated follows a terminal event of every
\* one of its children.
C37_QueueLogOrdered == \A k \in 1..Len(queueLog) : eventOrdered(k)

\* After cancel and resume a node was re-queued, run again, and a split
\* parent was aggregated.
C37_Witness ==
    /\ resumes = 1
    /\ \E k \in 1..Len(queueLog) :
          /\ queueLog[k].event = "node_dequeued"
          /\ prevEvent(k, queueLog[k].node_id) = "node_requeued"
    /\ eventCount(queueLog, "node_aggregated") > 0
    /\ eventCount(queueLog, "node_failed") > 0

\* The same store with run.config.scheduler = "bfs".
asBfs(s) == [s EXCEPT !.run.config.scheduler = "bfs"]

\* C39: hybrid and bfs are the same scheduler: from every state of a hybrid
\* run, executeStep, cancelRun and resumeRun leave the store (run.json and
\* the node, result and queue logs, hence the order of selected nodes) that
\* they leave on the bfs run in the same state, and the step reports the same
\* counts; the two runs start in the same state, so they stay in step.
C39_HybridIsBfs ==
    run.config.scheduler = "hybrid" =>
       /\ run.status = "running" =>
             \A m \in 1..MaxStepNodes :
                With(executeStep(Store, m), LAMBDA step :
                   executeStep(asBfs(Store), m) = [step EXCEPT !.store = asBfs(@)])
       /\ ~cancelRejects(run.status) => cancelRun(asBfs(Store)) = asBfs(cancelRun(Store))
       /\ run.status \notin {"running", "completed"} =>
             resumeRun(asBfs(Store)) = asBfs(resumeRun(Store))

\* A hybrid run took steps and is in a state where the dfs order and the bfs
\* order would select different nodes.
C39_Witness ==
    /\ run.config.scheduler = "hybrid"
    /\ run.status = "running"
    /\ eventCount(queueLog, "node_started") >= 2
    /\ queuedNodes(latestNodes) # <<>>
    /\ selectNextQueuedNode(latestNodes, "dfs") # selectNextQueuedNode(latestNodes, "bfs")
    /\ selectNextQueuedNode(latestNodes, "hybrid") = selectNextQueuedNode(latestNodes, "bfs")

\* C40: executeStep and runUntil on a run that is not running throw before
\* doing anything: run.json and the three logs are unchanged (no node is
\* dequeued, nothing is aggregated), so a cancelled run stays as it is
\* until resumeRun.
C40_StepOnStoppedRunThrows ==
    [][ (run.status # "running" /\ StepCalls) =>
           /\ lastError' \in {"executeStep", "runUntil"}
           /\ UNCHANGED disk ]_vars

\* A step was refused on a cancelled run that still has unfinished nodes.
C40_Witness ==
    /\ run.status = "cancelled"
    /\ lastError \in {"executeStep", "runUntil"}
    /\ countStatus(latestNodes, "cancelled") > 0
    /\ eventCount(queueLog, "node_started") > 0
====
